---- MODULE Spec2Model ----
(***************************************************************************)
(* A model of the annotation backend of the AI Image Gallery               *)
(* (backend/main.py): the result cache, the orchestrator                   *)
(* process_image_with_ai and its provider adapters, the submission handler *)
(* process_image, the background task process_image_async and the          *)
(* image_metadata table they write.                                        *)
(*                                                                         *)
(* Texts (captions, tags, colours) are sequences of one-character strings, *)
(* so that lower-casing, splitting, slicing and hex formatting are         *)
(* computed and not assumed.                                               *)
(***************************************************************************)
EXTENDS Integers, Sequences, FiniteSets, TLC

(***************************************************************************)
(* Bounds of the model.                                                    *)
(***************************************************************************)
\* Background tasks that can be scheduled or in flight at the same time.
MaxTasks == 2

\* The model follows the jobs of one image, submitted any number of times.
\* The handler and the task read and write only the row with
\* image_id = request.image_id, and the orchestrator only the cache entry of
\* request.image_url, so the jobs of different images share no state.
ImageIds == {1}

\* The URL of the stored image: the client submits an image with its own URL.
UrlOf(image_id) == <<"url", image_id>>

\* A column that can be NULL holds <<>> (NULL) or <<value>>.
Null == <<>>
Some(value) == <<value>>

(***************************************************************************)
(* Python sequence helpers.                                                *)
(***************************************************************************)
Min(a, b) == IF a <= b THEN a ELSE b

\* s[:n]
Take(s, n) == SubSeq(s, 1, Min(n, Len(s)))

\* s[n:]  (n >= 0)
Drop(s, n) == SubSeq(s, n + 1, Len(s))

Range(s) == {s[i] : i \in 1..Len(s)}

\* Every list that holds n distinct elements of S: the possible results of
\* list(S)[:n], the iteration order of a Python set of strings being the
\* hash order, which changes from process to process.
RECURSIVE ListsOfSet(_, _)
ListsOfSet(S, n) ==
    IF n = 0 \/ S = {} THEN {<<>>}
    ELSE UNION {{<<x>> \o s : s \in ListsOfSet(S \ {x}, n - 1)} : x \in S}

(***************************************************************************)
(* Text helpers: str.lower, str.replace of one character, str.split().     *)
(***************************************************************************)
UpperChars == <<"A","B","C","D","E","F","G","H","I","J","K","L","M",
                "N","O","P","Q","R","S","T","U","V","W","X","Y","Z">>
LowerChars == <<"a","b","c","d","e","f","g","h","i","j","k","l","m",
                "n","o","p","q","r","s","t","u","v","w","x","y","z">>

LowerChar(c) ==
    IF \E i \in 1..Len(UpperChars) : UpperChars[i] = c
    THEN LowerChars[CHOOSE i \in 1..Len(UpperChars) : UpperChars[i] = c]
    ELSE c

\* text.lower()
Lower(text) == [i \in 1..Len(text) |-> LowerChar(text[i])]

\* text.replace(old, new) for one-character old and new
Replace(text, old, new) ==
    [i \in 1..Len(text) |-> IF text[i] = old THEN new ELSE text[i]]

Whitespace == {" ", "\n", "\t"}

\* the first position from i on that holds whitespace (space = TRUE) or
\* something else (space = FALSE), Len(text) + 1 when there is none
NextWhere(text, i, space) ==
    CHOOSE k \in i..(Len(text) + 1) :
        /\ k = Len(text) + 1 \/ (text[k] \in Whitespace) = space
        /\ \A j \in i..(k - 1) : (text[j] \in Whitespace) # space

\* text.split(): the maximal runs of non-whitespace characters, in order
RECURSIVE SplitFrom(_, _)
SplitFrom(text, i) ==
    LET b == NextWhere(text, i, FALSE)
        e == NextWhere(text, b, TRUE)
    IN  IF b > Len(text) THEN <<>>
        ELSE <<SubSeq(text, b, e - 1)>> \o SplitFrom(text, e)

Split(text) == SplitFrom(text, 1)

\* text.strip()
RECURSIVE LStrip(_)
LStrip(text) ==
    IF text # <<>> /\ Head(text) \in Whitespace THEN LStrip(Tail(text)) ELSE text

RECURSIVE RStrip(_)
RStrip(text) ==
    IF text # <<>> /\ text[Len(text)] \in Whitespace
    THEN RStrip(SubSeq(text, 1, Len(text) - 1))
    ELSE text

Strip(text) == RStrip(LStrip(text))

\* whether sub occurs in text at position i
OccursAt(text, sub, i) ==
    /\ i + Len(sub) - 1 <= Len(text)
    /\ \A k \in 1..Len(sub) : text[i + k - 1] = sub[k]

\* sub in text
Contains(text, sub) == \E i \in 1..(Len(text) + 1) : OccursAt(text, sub, i)

\* text.split(sep) from position i on: the pieces between the occurrences of
\* sep, left to right
RECURSIVE SplitOn(_, _, _)
SplitOn(text, sep, i) ==
    LET p == CHOOSE k \in i..(Len(text) + 1) :
                /\ k = Len(text) + 1 \/ OccursAt(text, sep, k)
                /\ \A j \in i..(k - 1) : ~OccursAt(text, sep, j)
    IN  IF p > Len(text) THEN <<SubSeq(text, i, Len(text))>>
        ELSE <<SubSeq(text, i, p - 1)>> \o SplitOn(text, sep, p + Len(sep))

(***************************************************************************)
(* extract_tags_from_text                                                  *)
(***************************************************************************)
\* len(w) > 3
MinTagLen == 3
\* [:10]
MaxTags == 10

common_words ==
    { <<"t","h","e">>, <<"a">>, <<"a","n">>, <<"a","n","d">>, <<"o","r">>,
      <<"b","u","t">>, <<"i","n">>, <<"o","n">>, <<"a","t">>, <<"t","o">>,
      <<"f","o","r">>, <<"o","f">>, <<"w","i","t","h">>, <<"b","y">>,
      <<"i","s">>, <<"a","r","e">>, <<"w","a","s">>, <<"w","e","r","e">> }

\* words = text.lower().replace(",", " ").replace(".", " ").split()
TagWords(text) == Split(Replace(Replace(Lower(text), ",", " "), ".", " "))

\* as TagCandidates, keeping the words of three letters
TagCandidatesFromThree(text) ==
    SelectSeq(TagWords(text), LAMBDA w : Len(w) >= MinTagLen /\ w \notin common_words)

\* tags = [w for w in words if len(w) > 3 and w not in common_words]
TagCandidates(text) ==
    SelectSeq(TagWords(text), LAMBDA w : Len(w) > MinTagLen /\ w \notin common_words)

\* list(set(tags))[:10]: every list the call can return
extract_tags_from_text(text) ==
    LET tagset == Range(TagCandidates(text))
    IN  ListsOfSet(tagset, Min(MaxTags, Cardinality(tagset)))

(***************************************************************************)
(* rgb_to_hex and extract_colors                                           *)
(***************************************************************************)
HexDigits == <<"0","1","2","3","4","5","6","7","8","9","a","b","c","d","e","f">>

\* as Hex2, with the format 02X
Hex2Upper(n) ==
    LET upper == <<"0","1","2","3","4","5","6","7","8","9","A","B","C","D","E","F">>
    IN  <<upper[(n \div 16) + 1], upper[(n % 16) + 1]>>

\* f"{n:02x}"
Hex2(n) == <<HexDigits[(n \div 16) + 1], HexDigits[(n % 16) + 1]>>

rgb_to_hex(rgb) == <<"#">> \o Hex2(rgb[1]) \o Hex2(rgb[2]) \o Hex2(rgb[3])

\* the width of a quantisation bucket
BucketWidth == 32
\* the number of colours returned
NumColors == 3

Gray == <<"#","8","0","8","0","8","0">>
\* the list returned when the download or the decoding fails
FallbackColors == << <<"#","0","0","0","0","0","0">>,
                     <<"#","F","F","F","F","F","F">>,
                     Gray >>

Quantize(p) == << (p[1] \div BucketWidth) * BucketWidth,
                  (p[2] \div BucketWidth) * BucketWidth,
                  (p[3] \div BucketWidth) * BucketWidth >>

\* the keys of color_groups in insertion order
RECURSIVE BucketKeys(_, _)
BucketKeys(pixels, seen) ==
    IF pixels = <<>> THEN seen
    ELSE LET k == Quantize(Head(pixels))
         IN  BucketKeys(Tail(pixels), IF k \in Range(seen) THEN seen ELSE Append(seen, k))

\* color_groups[key]
BucketCount(pixels, key) ==
    Cardinality({i \in 1..Len(pixels) : Quantize(pixels[i]) = key})

\* as SortByCount, leaving the keys in insertion order
SortByCountUnsorted(keys, pixels) == keys

\* sorted(color_groups.items(), key=lambda x: x[1], reverse=True): Python's
\* sort is stable, also with reverse=True
RECURSIVE SortByCount(_, _)
SortByCount(keys, pixels) ==
    IF keys = <<>> THEN <<>>
    ELSE LET best == CHOOSE i \in 1..Len(keys) :
                        /\ \A j \in 1..Len(keys) :
                              BucketCount(pixels, keys[j]) <= BucketCount(pixels, keys[i])
                        /\ \A j \in 1..(i - 1) :
                              BucketCount(pixels, keys[j]) < BucketCount(pixels, keys[i])
             rest == [j \in 1..(Len(keys) - 1) |-> IF j < best THEN keys[j] ELSE keys[j + 1]]
         IN  <<keys[best]>> \o SortByCount(rest, pixels)

\* while len(top_colors) < 3: top_colors.append("#808080")
RECURSIVE PadGray(_)
PadGray(colors) == IF Len(colors) < NumColors THEN PadGray(Append(colors, Gray)) ELSE colors

\* image is what the download and the decoding of image_url give: "error" when
\* either raises, else the pixels of the resized RGB image
extract_colors(image) ==
    IF image = "error" THEN FallbackColors
    ELSE LET sorted_colors == SortByCount(BucketKeys(image, <<>>), image)
             top_colors == [i \in 1..Len(Take(sorted_colors, NumColors)) |->
                               rgb_to_hex(sorted_colors[i])]
         IN  Take(PadGray(top_colors), NumColors)

(***************************************************************************)
(* Annotation results: {"tags": [...], "description": ..., "colors": [...]}*)
(***************************************************************************)
TagImage ==
    <<"i","m","a","g","e">>

TagPhoto ==
    <<"p","h","o","t","o">>

TagPicture ==
    <<"p","i","c","t","u","r","e">>

TagVisual ==
    <<"v","i","s","u","a","l">>

TagGraphic ==
    <<"g","r","a","p","h","i","c">>

\* ["image", "photo", "picture", "visual", "graphic"]
FallbackTags == <<TagImage, TagPhoto, TagPicture, TagVisual, TagGraphic>>

\* the length the tag list is padded to
MinTags == 5
\* the length the description is cut to
MaxDescription == 200

\* stands for "no result" where a result may be missing (never a dict of the code)
NoResult == [tags |-> <<>>, description |-> <<>>, colors |-> <<>>]

\* The dict the caption adapters build from a caption, its tags and the colours:
\*   "tags": tags[:10] if len(tags) >= 5 else tags + [...][:5-len(tags)],
\*   "description": caption[:200] if len(caption) > 200 else caption,
\*   "colors": colors[:3]
CaptionResult(caption, tags, colors) ==
    [ tags |-> IF Len(tags) >= MinTags THEN Take(tags, MaxTags)
               ELSE tags \o Take(FallbackTags, MinTags - Len(tags)),
      description |-> IF Len(caption) > MaxDescription
                      THEN Take(caption, MaxDescription) ELSE caption,
      colors |-> Take(colors, NumColors) ]

(***************************************************************************)
(* What the outside world can answer: the samples the model draws from.    *)
(***************************************************************************)
CaptionCat ==
    <<"A"," ","c","a","t"," ","a","n","d"," ","a"," ","d","o","g"," ","a",
      "r","e"," ","p","l","a","y","i","n","g",".">>

\* the captions a captioning model can return
Captions == { <<>>, CaptionCat }

\* what a download of image_url can give: an error, or the pixels of the
\* image (four buckets, two of them with two pixels each)
Images ==
    { "error",
      << <<0, 0, 255>>, <<255, 0, 0>>, <<250, 10, 10>>, <<0, 0, 250>>, <<40, 40, 40>>,
         <<255, 255, 255>> >> }

(***************************************************************************)
(* An adapter call ends in an outcome:                                     *)
(*   adapter     which adapter ran ("none": the orchestrator raised before *)
(*               it called one)                                            *)
(*   raised      the call raised instead of returning                      *)
(*   result      the dict returned (NoResult when raised)                  *)
(*   suspended   the coroutine awaited something that suspends it (a       *)
(*               download, a sleep, the executor) before it ended          *)
(*   color_runs  the lists extract_colors returned to this call, in order  *)
(***************************************************************************)
Raise(adapter, suspended) ==
    [ adapter |-> adapter, raised |-> TRUE, result |-> NoResult,
      suspended |-> suspended, color_runs |-> <<>> ]

Return(adapter, result, color_runs) ==
    [ adapter |-> adapter, raised |-> FALSE, result |-> result,
      suspended |-> TRUE, color_runs |-> color_runs ]

(***************************************************************************)
(* process_with_mock                                                       *)
(***************************************************************************)
MockDescription ==
    <<"A"," ","b","e","a","u","t","i","f","u","l"," ","i","m","a","g","e",
      " ","w","i","t","h"," ","n","a","t","u","r","a","l"," ","s","c","e",
      "n","e","r","y"," ","a","n","d"," ","v","i","b","r","a","n","t"," ",
      "c","o","l","o","r","s",".">>

MockTags ==
    << <<"n","a","t","u","r","e">>, <<"l","a","n","d","s","c","a","p","e">>,
       <<"o","u","t","d","o","o","r">>, <<"s","c","e","n","i","c">>,
       <<"b","e","a","u","t","i","f","u","l">>,
       <<"p","h","o","t","o","g","r","a","p","h","y">> >>

MockColors ==
    << <<"#","4","A","9","0","E","2">>, <<"#","5","0","C","8","7","8">>,
       <<"#","F","F","D","7","0","0">> >>

\* await asyncio.sleep(1), then the fixed dict
process_with_mock ==
    { Return("mock", [tags |-> MockTags, description |-> MockDescription,
                      colors |-> MockColors], <<>>) }

(***************************************************************************)
(* process_with_replicate                                                  *)
(***************************************************************************)
Err429 ==
    <<"4","2","9"," ","r","a","t","e"," ","l","i","m","i","t"," ","r","e",
      "s","e","t","s"," ","i","n"," ","~","1","2","s">>

Err404 ==
    <<"4","0","4"," ","n","o","t"," ","f","o","u","n","d">>

Err500 ==
    <<"5","0","0"," ","s","e","r","v","e","r"," ","e","r","r","o","r">>

Str429 ==
    <<"4","2","9">>

StrThrottled ==
    <<"t","h","r","o","t","t","l","e","d">>

StrRateLimit ==
    <<"r","a","t","e"," ","l","i","m","i","t">>

models_to_try == << "lucataco/moondream2", "andreasjansson/blip-2" >>

\* what one replicate.run (with the wait for the prediction) can give: an
\* output, a ReplicateError with its text, any other exception
RunOutcomes ==
    [kind : {"ok"}, caption : Captions, detail : {<<>>}]
    \cup [kind : {"ReplicateError"}, caption : {<<>>}, detail : {Err429, Err404, Err500}]
    \cup [kind : {"Exception"}, caption : {<<>>}, detail : {<<>>}]

\* the outside world of one process_with_replicate call: the outcome of the
\* first run and of the run after a rate-limit wait, per candidate, and the
\* image the colour extractor downloads
ReplicateEnvs ==
    [ first : [1..Len(models_to_try) -> RunOutcomes],
      retry : [1..Len(models_to_try) -> {o \in RunOutcomes : o.detail # Err404 /\ o.detail # Err500}],
      image : Images ]

\* "429" in error_detail or "throttled" in error_detail.lower()
\*   or "rate limit" in error_detail.lower()
IsRateLimited(error_detail) ==
    \/ Contains(error_detail, Str429)
    \/ Contains(Lower(error_detail), StrThrottled)
    \/ Contains(Lower(error_detail), StrRateLimit)

\* the success path of a run: tags from the caption, colours from the image
ReplicateSuccess(caption, env) ==
    LET colors == extract_colors(env.image)
    IN  { Return("replicate", CaptionResult(caption, tags, colors), <<colors>>) :
            tags \in extract_tags_from_text(caption) }

\* wait_time = 70
DefaultWait == 70

\* wait_time = extracted_time + 15
WaitBuffer == 15

Digits == <<"0","1","2","3","4","5","6","7","8","9">>

IsDigit(c) == \E d \in 1..Len(Digits) : Digits[d] = c

DigitValue(c) == (CHOOSE d \in 1..Len(Digits) : Digits[d] = c) - 1

\* int(s) for a string of digits
RECURSIVE ParseInt(_)
ParseInt(s) ==
    IF s = <<>> THEN 0
    ELSE 10 * ParseInt(SubSeq(s, 1, Len(s) - 1)) + DigitValue(s[Len(s)])

StrResetsIn ==
    <<"r","e","s","e","t","s"," ","i","n">>

\* the last position of the run of digits that starts at i (i - 1 when
\* text[i] is no digit)
RECURSIVE DigitsEnd(_, _)
DigitsEnd(text, i) ==
    IF i <= Len(text) /\ IsDigit(text[i]) THEN DigitsEnd(text, i + 1) ELSE i - 1

\* (\d+)s matches at i: \d+ is greedy and what follows a shorter run is a
\* digit, so the group is the whole run and an s (or S) must follow it
DigitsThenS(text, i) ==
    LET e == DigitsEnd(text, i)
    IN  e >= i /\ e + 1 <= Len(text) /\ LowerChar(text[e + 1]) = "s"

\* (?:~)?(\d+)s matches at q: where the group starts, 0 when it does not
GroupStart(text, q) ==
    IF q <= Len(text) /\ text[q] = "~" /\ DigitsThenS(text, q + 1) THEN q + 1
    ELSE IF DigitsThenS(text, q) THEN q
    ELSE 0

\* .*?(?:~)?(\d+)s from position q on: where .*? (which takes no newline,
\* and as little as it can) ends, 0 when nothing matches
RECURSIVE ScanGroup(_, _)
ScanGroup(text, q) ==
    IF q > Len(text) THEN 0
    ELSE IF GroupStart(text, q) # 0 THEN q
    ELSE IF text[q] = "\n" THEN 0
    ELSE ScanGroup(text, q + 1)

\* re.search(r'resets in.*?(?:~)?(\d+)s', text, re.IGNORECASE), trying the
\* start positions from p on, left to right: where the group starts in the
\* match found, 0 when there is none (lower is text.lower())
RECURSIVE ResetsInMatch(_, _, _)
ResetsInMatch(text, lower, p) ==
    IF p > Len(text) THEN 0
    ELSE LET q == IF OccursAt(lower, StrResetsIn, p)
                  THEN ScanGroup(text, p + Len(StrResetsIn)) ELSE 0
         IN  IF q # 0 THEN GroupStart(text, q)
             ELSE ResetsInMatch(text, lower, p + 1)

\* as wait_time, without the buffer
wait_time_unbuffered(error_detail) ==
    LET d == ResetsInMatch(error_detail, Lower(error_detail), 1)
    IN  IF d = 0 THEN DefaultWait
        ELSE ParseInt(SubSeq(error_detail, d, DigitsEnd(error_detail, d)))

\* the seconds to sleep after a rate-limit error with this text
wait_time(error_detail) ==
    LET d == ResetsInMatch(error_detail, Lower(error_detail), 1)
    IN  IF d = 0 THEN DefaultWait
        ELSE ParseInt(SubSeq(error_detail, d, DigitsEnd(error_detail, d))) + WaitBuffer

\* what a call did, in order: replicate.run for candidate model, or
\* asyncio.sleep(wait) after a rate-limit error of candidate model
RunEvent(model) == [op |-> "run", model |-> model, wait |-> 0]

SleepEvent(model, wait) == [op |-> "sleep", model |-> model, wait |-> wait]

Slept(trace) == \E j \in 1..Len(trace) : trace[j].op = "sleep"

\* the outcomes outs, each with the trace of the call
Traced(outs, trace) ==
    { [ adapter |-> o.adapter, raised |-> o.raised, result |-> o.result,
        suspended |-> o.suspended, color_runs |-> o.color_runs,
        trace |-> trace ] : o \in outs }

\* as ReplicateLoop, going to the next candidate after the rate-limit wait
ReplicateLoopWithoutRetry(i, env, trace) ==
    LET RECURSIVE Loop(_, _)
        Loop(j, tr) ==
            IF j > Len(models_to_try)
            THEN Traced({ Raise("replicate", Slept(tr)) }, tr)
            ELSE LET first == env.first[j]
                     ran == Append(tr, RunEvent(j))
                 IN  IF first.kind = "ok"
                     THEN Traced(ReplicateSuccess(first.caption, env), ran)
                     ELSE IF first.kind = "ReplicateError" /\ IsRateLimited(first.detail)
                          THEN Loop(j + 1, Append(ran, SleepEvent(j, wait_time(first.detail))))
                          ELSE Loop(j + 1, ran)
    IN  Loop(i, trace)

\* for model_config in models_to_try[i:]: ...; trace is what the call has
\* done so far
RECURSIVE ReplicateLoop(_, _, _)
ReplicateLoop(i, env, trace) ==
    IF i > Len(models_to_try)
    THEN Traced({ Raise("replicate", Slept(trace)) }, trace)
    ELSE LET first == env.first[i]
             retry == env.retry[i]
             ran == Append(trace, RunEvent(i))
             \* await asyncio.sleep(wait_time), then one retry
             waited == ran \o <<SleepEvent(i, wait_time(first.detail)), RunEvent(i)>>
         IN  IF first.kind = "ok"
             THEN Traced(ReplicateSuccess(first.caption, env), ran)
             ELSE IF first.kind = "ReplicateError" /\ IsRateLimited(first.detail)
                  THEN IF retry.kind = "ok"
                       THEN Traced(ReplicateSuccess(retry.caption, env), waited)
                       ELSE ReplicateLoop(i + 1, env, waited)
                  ELSE ReplicateLoop(i + 1, env, ran)

process_with_replicate(api_key, env) ==
    IF ~api_key THEN Traced({ Raise("replicate", FALSE) }, <<>>)
    ELSE ReplicateLoop(1, env, <<>>)

(***************************************************************************)
(* process_with_huggingface (the local BLIP model)                         *)
(***************************************************************************)
HfFallbackDescription ==
    <<"I","m","a","g","e"," ","u","p","l","o","a","d","e","d","."," ","A",
      "I"," ","a","n","a","l","y","s","i","s"," ","e","n","c","o","u","n",
      "t","e","r","e","d"," ","a","n"," ","e","r","r","o","r",".">>

\* len(caption) < 5 is an empty caption
MinCaptionLen == 5

\* the outside world of one call: the download of the image, what
\* run_captioning gives in the executor, the image the colour extractor gets
HuggingfaceEnvs ==
    [ download : {"ok", "error"},
      captioning : [kind : {"ok"}, caption : Captions]
                   \cup [kind : {"Exception"}, caption : {<<>>}],
      image : Images ]

\* Every path of the function ends at the raise of the download, at the
\* return of the try block or at the return of its except branch; the
\* statements after that branch (the walk of the inference endpoints) are
\* never reached. The trace of a call is the requests it posted to inference
\* endpoints: none.
process_with_huggingface(env) ==
    LET caption == Strip(env.captioning.caption)
        colors == extract_colors(env.image)
        trace == <<>>
    IN  IF env.download = "error" THEN Traced({ Raise("huggingface", TRUE) }, trace)
        ELSE IF env.captioning.kind = "Exception" \/ Len(caption) < MinCaptionLen
             THEN \* except Exception: the fallback dict, colours extracted anyway
                  Traced({ Return("huggingface",
                                  [ tags |-> <<TagImage, TagPhoto, TagPicture, TagVisual>>,
                                    description |-> HfFallbackDescription,
                                    colors |-> Take(colors, NumColors) ],
                                  <<colors>>) }, trace)
             ELSE Traced({ Return("huggingface", CaptionResult(caption, tags, colors),
                                  <<colors>>) :
                             tags \in extract_tags_from_text(caption) }, trace)

(***************************************************************************)
(* process_with_openai                                                     *)
(***************************************************************************)
OpenAiDefaultDescription ==
    <<"I","m","a","g","e"," ","d","e","s","c","r","i","p","t","i","o","n">>

DescriptionWord ==
    <<"d","e","s","c","r","i","p","t","i","o","n">>

ContentOk ==
    <<"o","k">>

ContentJson ==
    <<"d","e","s","c","r","i","p","t","i","o","n",":"," ","t","r","e","e">>

\* the message contents the chat completion can return
Contents == { ContentOk, ContentJson }

OpenaiEnvs ==
    [ create : [kind : {"ok"}, content : Contents]
               \cup [kind : {"Exception"}, content : {<<>>}],
      image : Images ]

\* the trace of a call is the remote calls it made to the provider, in order
process_with_openai(env) ==
    LET content == env.create.content
        colors == extract_colors(env.image)
        trace == <<"chat.completions.create">>
    IN  IF env.create.kind = "Exception" THEN Traced({ Raise("openai", FALSE) }, trace)
        ELSE Traced({ Return("openai",
                             [ tags |-> Take(tags, MaxTags),
                               description |->
                                   IF Contains(content, DescriptionWord)
                                   THEN SplitOn(content, DescriptionWord, 1)[2]
                                   ELSE OpenAiDefaultDescription,
                               colors |-> Take(colors, NumColors) ],
                             <<colors>>) :
                        tags \in extract_tags_from_text(content) }, trace)

(***************************************************************************)
(* process_with_google                                                     *)
(***************************************************************************)
GoogleDefaultDescription ==
    <<"I","m","a","g","e"," ","d","e","t","e","c","t","e","d">>

LabelForest ==
    <<"F","o","r","e","s","t">>

LabelTree ==
    <<"T","r","e","e">>

TextStop ==
    <<"S","T","O","P">>

\* the outside world of one call: the label descriptions of label_detection,
\* the text annotations of text_detection (either call can raise), the image
GoogleEnvs ==
    [ labels : [kind : {"ok"}, list : {<<>>, <<LabelForest, LabelTree>>}]
               \cup [kind : {"Exception"}, list : {<<>>}],
      text : [kind : {"ok"}, list : {<<>>, <<TextStop>>}]
             \cup [kind : {"Exception"}, list : {<<>>}],
      image : Images ]

\* as process_with_google, calling label_detection again when it raised
process_with_google_retrying(env) ==
    LET labels == env.labels.list
        description == IF env.text.list # <<>> THEN env.text.list[1]
                       ELSE GoogleDefaultDescription
        colors == extract_colors(env.image)
    IN  IF env.labels.kind = "Exception"
        THEN Traced({ Raise("google", FALSE) }, <<"label_detection", "label_detection">>)
        ELSE IF env.text.kind = "Exception"
             THEN Traced({ Raise("google", FALSE) }, <<"label_detection", "text_detection">>)
             ELSE Traced({ Return("google",
                                  [ tags |-> Take(labels, MaxTags),
                                    description |-> Take(description, MaxDescription),
                                    colors |-> Take(colors, NumColors) ],
                                  <<colors>>) },
                         <<"label_detection", "text_detection">>)

process_with_google(env) ==
    LET labels == env.labels.list
        description == IF env.text.list # <<>> THEN env.text.list[1]
                       ELSE GoogleDefaultDescription
        colors == extract_colors(env.image)
    IN  IF env.labels.kind = "Exception"
        THEN Traced({ Raise("google", FALSE) }, <<"label_detection">>)
        ELSE IF env.text.kind = "Exception"
             THEN Traced({ Raise("google", FALSE) }, <<"label_detection", "text_detection">>)
             ELSE Traced({ Return("google",
                                  [ tags |-> Take(labels, MaxTags),
                                    description |-> Take(description, MaxDescription),
                                    colors |-> Take(colors, NumColors) ],
                                  <<colors>>) },
                         <<"label_detection", "text_detection">>)

(***************************************************************************)
(* process_image_with_ai: the cache and the dispatch                       *)
(***************************************************************************)
Services == {"replicate", "huggingface", "openai", "google", "mock"}

DegradedDescription ==
    <<"I","m","a","g","e"," ","p","r","o","c","e","s","s","i","n","g"," ",
      "e","n","c","o","u","n","t","e","r","e","d"," ","a","n"," ","e","r",
      "r","o","r","."," ","P","l","e","a","s","e"," ","t","r","y"," ","a",
      "g","a","i","n"," ","l","a","t","e","r",".">>

\* the dict of the except branch: "Return minimal data on error"
DegradedResult ==
    [ tags |-> <<TagImage, TagPhoto, TagPicture>>,
      description |-> DegradedDescription,
      colors |-> FallbackColors ]

\* what each adapter can do, over everything the outside world can answer
ReplicateOutcomes == UNION {process_with_replicate(TRUE, env) : env \in ReplicateEnvs}
HuggingfaceOutcomes == UNION {process_with_huggingface(env) : env \in HuggingfaceEnvs}
OpenaiOutcomes == UNION {process_with_openai(env) : env \in OpenaiEnvs}
GoogleOutcomes == UNION {process_with_google(env) : env \in GoogleEnvs}

\* as Dispatch, with the mock adapter for every provider whose key is
\* missing
DispatchMockWithoutKey(service, api_key) ==
    CASE service = "replicate" ->
            IF ~api_key THEN process_with_mock ELSE ReplicateOutcomes
      [] service = "huggingface" -> HuggingfaceOutcomes
      [] service = "openai" ->
            IF ~api_key THEN process_with_mock ELSE OpenaiOutcomes
      [] service = "google" ->
            IF ~api_key THEN process_with_mock ELSE GoogleOutcomes
      [] OTHER -> process_with_mock

\* the if/elif chain on AI_SERVICE and AI_API_KEY: the outcomes of the
\* adapter it calls (a missing key raises ValueError for openai and google)
Dispatch(service, api_key) ==
    CASE service = "replicate" ->
            IF ~api_key THEN process_with_mock ELSE ReplicateOutcomes
      [] service = "huggingface" -> HuggingfaceOutcomes
      [] service = "openai" ->
            IF ~api_key THEN { Raise("none", FALSE) } ELSE OpenaiOutcomes
      [] service = "google" ->
            IF ~api_key THEN { Raise("none", FALSE) } ELSE GoogleOutcomes
      [] OTHER -> process_with_mock

\* ai_cache[cache_key] = result
Store(cache, key, result) ==
    [k \in DOMAIN cache \cup {key} |-> IF k = key THEN result ELSE cache[k]]

\* One run of the orchestrator: what it returned (or raised), the cache it
\* leaves, and what the adapter did.
\*   hit             the cache held the key
\*   adapter         the adapter called ("none" when none was)
\*   adapter_raised  the call of the adapter (or the dispatch) raised
\*   suspended       the run awaited something that suspends it
Run(cache, hit, out, result, raised) ==
    [ cache |-> cache, hit |-> hit, result |-> result, raised |-> raised,
      adapter |-> out.adapter, adapter_raised |-> out.raised,
      suspended |-> out.suspended, color_runs |-> out.color_runs ]

\* the run that calls no adapter
NoCall ==
    [ adapter |-> "none", raised |-> FALSE, result |-> NoResult,
      suspended |-> FALSE, color_runs |-> <<>> ]

\* as AfterAdapter, with an except branch that raises again
AfterAdapterReraising(cache, image_url, out) ==
    IF ~out.raised
    THEN Run(Store(cache, image_url, out.result), FALSE, out, out.result, FALSE)
    ELSE Run(cache, FALSE, out, NoResult, TRUE)

\* as AfterAdapter, with an except branch that stores what it returns
AfterAdapterCachingDegraded(cache, image_url, out) ==
    IF ~out.raised
    THEN Run(Store(cache, image_url, out.result), FALSE, out, out.result, FALSE)
    ELSE Run(Store(cache, image_url, DegradedResult), FALSE, out, DegradedResult, FALSE)

\* as AfterAdapter, with an except branch that runs the colour extractor
AfterAdapterExtractingColors(cache, image_url, out) ==
    IF ~out.raised
    THEN Run(Store(cache, image_url, out.result), FALSE, out, out.result, FALSE)
    ELSE LET colors == extract_colors(CHOOSE image \in Images : image # "error")
         IN  Run(cache, FALSE, [out EXCEPT !.color_runs = <<colors>>],
                 [DegradedResult EXCEPT !.colors = colors], FALSE)

\* as AfterAdapter, with an except branch that drops the entry of the key
AfterAdapterEvicting(cache, image_url, out) ==
    IF ~out.raised
    THEN Run(Store(cache, image_url, out.result), FALSE, out, out.result, FALSE)
    ELSE Run([k \in DOMAIN cache \ {image_url} |-> cache[k]], FALSE, out,
             DegradedResult, FALSE)

\* the rest of the try block once the adapter has ended with out, and the
\* except branch
AfterAdapter(cache, image_url, out) ==
    IF ~out.raised
    THEN Run(Store(cache, image_url, out.result), FALSE, out, out.result, FALSE)
    ELSE Run(cache, FALSE, out, DegradedResult, FALSE)

\* as process_image_with_ai, without the cache lookup
process_image_with_ai_uncached(cache, image_url, service, api_key) ==
    { AfterAdapter(cache, image_url, out) : out \in Dispatch(service, api_key) }

\* every run a call of process_image_with_ai(image_url) can make
process_image_with_ai(cache, image_url, service, api_key) ==
    IF image_url \in DOMAIN cache
    THEN { Run(cache, TRUE, NoCall, cache[image_url], FALSE) }
    ELSE { AfterAdapter(cache, image_url, out) : out \in Dispatch(service, api_key) }

\* the runs a call suspended in its adapter can end with: the cache is the
\* one of the moment it resumes, and is not looked up again
ResumeAfterAwait(cache, image_url, service, api_key) ==
    { AfterAdapter(cache, image_url, out) :
        out \in {o \in Dispatch(service, api_key) : o.suspended} }

(***************************************************************************)
(* The image_metadata table: rows keyed by image_id.                       *)
(***************************************************************************)
\* a row as the upload path leaves it before the image is submitted
PendingRow(user_id) ==
    [ user_id |-> user_id, ai_processing_status |-> "pending",
      description |-> Null, tags |-> Null, colors |-> Null ]

\* as UpdateStatus, writing the row anew with the status alone
UpdateStatusClearing(table, image_id, status) ==
    [i \in DOMAIN table |->
        IF i = image_id
        THEN [ user_id |-> table[i].user_id, ai_processing_status |-> status,
               description |-> Null, tags |-> Null, colors |-> Null ]
        ELSE table[i]]

\* .update(fields).eq("image_id", image_id): no row, nothing updated
UpdateStatus(table, image_id, status) ==
    [i \in DOMAIN table |->
        IF i = image_id THEN [table[i] EXCEPT !.ai_processing_status = status]
        ELSE table[i]]

\* as UpdateCompleted, as an upsert: a missing row is created
UpdateCompletedUpserting(table, image_id, ai_result) ==
    [i \in DOMAIN table \cup {image_id} |->
        IF i = image_id
        THEN [ user_id |-> "user", ai_processing_status |-> "completed",
               description |-> Some(ai_result.description),
               tags |-> Some(ai_result.tags), colors |-> Some(ai_result.colors) ]
        ELSE table[i]]

\* as UpdateCompleted, writing the status alone
UpdateCompletedStatusOnly(table, image_id, ai_result) ==
    [i \in DOMAIN table |->
        IF i = image_id THEN [table[i] EXCEPT !.ai_processing_status = "completed"]
        ELSE table[i]]

UpdateCompleted(table, image_id, ai_result) ==
    [i \in DOMAIN table |->
        IF i = image_id
        THEN [table[i] EXCEPT !.description = Some(ai_result.description),
                              !.tags = Some(ai_result.tags),
                              !.colors = Some(ai_result.colors),
                              !.ai_processing_status = "completed"]
        ELSE table[i]]

\* .insert({image_id, user_id, ai_processing_status})
InsertRow(table, image_id, user_id, status) ==
    [i \in DOMAIN table \cup {image_id} |->
        IF i = image_id
        THEN [ user_id |-> user_id, ai_processing_status |-> status,
               description |-> Null, tags |-> Null, colors |-> Null ]
        ELSE table[i]]

StatusOf(table, image_id) ==
    IF image_id \in DOMAIN table THEN table[image_id].ai_processing_status ELSE "absent"

\* one write the code attempted: the status it carried, whether the call
\* raised, whether a row took it
Write(status, raised, applied) == [status |-> status, raised |-> raised, applied |-> applied]

(***************************************************************************)
(* process_image: the submission handler. It awaits nothing (the table     *)
(* calls are synchronous), so it runs in one step.                         *)
(***************************************************************************)
\* what can raise inside the handler: a statement of the outer try before
\* the table is touched, the select, the update or insert, create_task
HandlerEnvs ==
    [ outer_raises : BOOLEAN, select_raises : BOOLEAN, write_raises : BOOLEAN,
      create_task_raises : BOOLEAN ]

\* as Upsert, marking an existing row completed
UpsertCompleting(table, request, env) ==
    IF env.select_raises THEN [table |-> table, writes |-> <<>>, ok |-> FALSE]
    ELSE IF env.write_raises
         THEN [table |-> table, writes |-> <<Write("processing", TRUE, FALSE)>>, ok |-> FALSE]
         ELSE IF request.image_id \in DOMAIN table
              THEN [ table |-> UpdateStatus(table, request.image_id, "completed"),
                     writes |-> <<Write("completed", FALSE, TRUE)>>, ok |-> TRUE ]
              ELSE [ table |-> InsertRow(table, request.image_id, request.user_id,
                                         "processing"),
                     writes |-> <<Write("processing", FALSE, TRUE)>>, ok |-> TRUE ]

\* the inner try around the table calls: existing row -> update, else insert;
\* an exception is printed and the handler goes on
Upsert(table, request, env) ==
    IF env.select_raises THEN [table |-> table, writes |-> <<>>, ok |-> FALSE]
    ELSE IF env.write_raises
         THEN [table |-> table, writes |-> <<Write("processing", TRUE, FALSE)>>, ok |-> FALSE]
         ELSE IF request.image_id \in DOMAIN table
              THEN [ table |-> UpdateStatus(table, request.image_id, "processing"),
                     writes |-> <<Write("processing", FALSE, TRUE)>>, ok |-> TRUE ]
              ELSE [ table |-> InsertRow(table, request.image_id, request.user_id,
                                         "processing"),
                     writes |-> <<Write("processing", FALSE, TRUE)>>, ok |-> TRUE ]

HttpOk == 200

\* as process_image, creating the task before the upsert
process_image_scheduling_first(table, request, env) ==
    IF env.outer_raises
    THEN [ table |-> table, writes |-> <<>>, upsert_ok |-> FALSE, scheduled |-> FALSE,
           status_at_schedule |-> "none",
           response |-> [status_code |-> HttpOk, status |-> "queued",
                         image_id |-> request.image_id] ]
    ELSE LET up == Upsert(table, request, env)
         IN  [ table |-> up.table, writes |-> up.writes, upsert_ok |-> up.ok,
               scheduled |-> ~env.create_task_raises,
               status_at_schedule |->
                   IF env.create_task_raises THEN "none"
                   ELSE StatusOf(table, request.image_id),
               response |-> [status_code |-> HttpOk, status |-> "processing",
                             image_id |-> request.image_id] ]

\* as process_image, with an outer except branch that answers 500, as the
\* search and similarity routes do
process_image_failing_loudly(table, request, env) ==
    IF env.outer_raises
    THEN [ table |-> table, writes |-> <<>>, upsert_ok |-> FALSE, scheduled |-> FALSE,
           status_at_schedule |-> "none",
           response |-> [status_code |-> 500, status |-> "error",
                         image_id |-> request.image_id] ]
    ELSE LET up == Upsert(table, request, env)
         IN  [ table |-> up.table, writes |-> up.writes, upsert_ok |-> up.ok,
               scheduled |-> ~env.create_task_raises,
               status_at_schedule |->
                   IF env.create_task_raises THEN "none"
                   ELSE StatusOf(up.table, request.image_id),
               response |-> [status_code |-> HttpOk, status |-> "processing",
                             image_id |-> request.image_id] ]

process_image(table, request, env) ==
    IF env.outer_raises
    THEN \* except Exception: still 200, the "queued" variant
         [ table |-> table, writes |-> <<>>, upsert_ok |-> FALSE, scheduled |-> FALSE,
           status_at_schedule |-> "none",
           response |-> [status_code |-> HttpOk, status |-> "queued",
                         image_id |-> request.image_id] ]
    ELSE LET up == Upsert(table, request, env)
         IN  [ table |-> up.table, writes |-> up.writes, upsert_ok |-> up.ok,
               \* asyncio.create_task(process_image_async(request))
               scheduled |-> ~env.create_task_raises,
               status_at_schedule |->
                   IF env.create_task_raises THEN "none"
                   ELSE StatusOf(up.table, request.image_id),
               response |-> [status_code |-> HttpOk, status |-> "processing",
                             image_id |-> request.image_id] ]

(***************************************************************************)
(* process_image_async: the background task, from the return of the        *)
(* orchestrator on (the table calls are synchronous).                      *)
(***************************************************************************)
TaskEnvs == [completed_raises : BOOLEAN, failed_raises : BOOLEAN]

\* as FailedUpdate, with an except branch that prints and writes nothing
FailedUpdatePrintingOnly(table, image_id, env, writes) ==
    [table |-> table, writes |-> writes, raised |-> FALSE]

\* as FailedUpdate, without the try around the update to failed
FailedUpdateUnguarded(table, image_id, env, writes) ==
    IF env.failed_raises
    THEN [ table |-> table, writes |-> Append(writes, Write("failed", TRUE, FALSE)),
           raised |-> TRUE ]
    ELSE [ table |-> UpdateStatus(table, image_id, "failed"),
           writes |-> Append(writes, Write("failed", FALSE, image_id \in DOMAIN table)),
           raised |-> FALSE ]

\* the except branch: the update to failed, its own exception printed;
\* raised says whether the coroutine ends with an exception
FailedUpdate(table, image_id, env, writes) ==
    IF env.failed_raises
    THEN [ table |-> table, writes |-> Append(writes, Write("failed", TRUE, FALSE)),
           raised |-> FALSE ]
    ELSE [ table |-> UpdateStatus(table, image_id, "failed"),
           writes |-> Append(writes, Write("failed", FALSE, image_id \in DOMAIN table)),
           raised |-> FALSE ]

\* as process_image_async, treating a degraded result as a failure
process_image_async_failing_degraded(table, request, run, env) ==
    IF run.raised \/ run.adapter_raised
    THEN FailedUpdate(table, request.image_id, env, <<>>)
    ELSE IF env.completed_raises
         THEN FailedUpdate(table, request.image_id, env,
                           <<Write("completed", TRUE, FALSE)>>)
         ELSE [ table |-> UpdateCompleted(table, request.image_id, run.result),
                writes |-> <<Write("completed", FALSE,
                                   request.image_id \in DOMAIN table)>>,
                raised |-> FALSE ]

\* run is the run of process_image_with_ai the task awaited
process_image_async(table, request, run, env) ==
    IF run.raised THEN FailedUpdate(table, request.image_id, env, <<>>)
    ELSE IF env.completed_raises
         THEN FailedUpdate(table, request.image_id, env,
                           <<Write("completed", TRUE, FALSE)>>)
         ELSE [ table |-> UpdateCompleted(table, request.image_id, run.result),
                writes |-> <<Write("completed", FALSE,
                                   request.image_id \in DOMAIN table)>>,
                raised |-> FALSE ]

(***************************************************************************)
(* The state.                                                              *)
(***************************************************************************)
VARIABLES
    AI_SERVICE,      \* os.getenv("AI_SERVICE", "replicate"), read once
    AI_API_KEY,      \* whether os.getenv("AI_API_KEY") is set
    ai_cache,        \* image_url -> result
    image_metadata,  \* image_id -> row
    tasks,           \* the background tasks: how many of each kind
    returned,        \* the URLs for which a call of the orchestrator has ended
    ev,              \* what the last step did (and answered)
    _blip_processor, \* the module global: "None" or "loaded"
    _blip_model,     \* the module global: "None" or "loaded"
    hf_calls,        \* the calls of process_with_huggingface, each with its
                     \* position in the coroutine and in its worker thread
    unit             \* the last application of a function on its own

vars ==
    << AI_SERVICE, AI_API_KEY, ai_cache, image_metadata, tasks, returned, ev,
       _blip_processor, _blip_model, hf_calls, unit >>

\* the variables of the worker threads of the local-model adapter
hf_vars == <<_blip_processor, _blip_model, hf_calls>>

\* the variables of the requests and of their background tasks
app_vars == <<AI_SERVICE, AI_API_KEY, ai_cache, image_metadata, tasks, returned, ev>>

UserId == "user"

Request(image_id) ==
    [image_id |-> image_id, user_id |-> UserId, image_url |-> UrlOf(image_id)]

\* A background task is a coroutine of process_image_async(request): it is
\* scheduled (created, not yet run) or awaiting (suspended inside the adapter
\* its orchestrator call made). Tasks of one kind are interchangeable, so the
\* state holds how many there are of each.
TaskKinds == [pc : {"scheduled", "awaiting"}, image_id : ImageIds]

Kind(pc, image_id) == [pc |-> pc, image_id |-> image_id]

RECURSIVE Sum(_, _)
Sum(f, S) == IF S = {} THEN 0 ELSE LET x == CHOOSE y \in S : TRUE
                                   IN  f[x] + Sum(f, S \ {x})

\* the tasks that exist
Live(ts) == Sum(ts, TaskKinds)

\* no answer: the step was not a request
NoResponse == [status_code |-> 0, status |-> "none", image_id |-> 0]

\* What a step did, for the properties to read:
\*   op            "process_image" (the handler ran), "task_start" (a task
\*                 ran up to the await of its adapter), "task_run" (a task
\*                 ran from its start to its end), "task_resume" (a
\*                 suspended task ran to its end)
\*   invoked       the adapter whose call began in this step
\*   after_return  that call began although an earlier orchestrator call
\*                 for the same URL had already ended
\*   adapter, hit, adapter_raised, raised, result, color_runs
\*                 the orchestrator run that ended in this step
\*   writes        the table writes attempted in this step, in order
\*   scheduled, upsert_ok, status_at_schedule, response
\*                 the handler: create_task succeeded, the upsert raised
\*                 nothing, the row's status when create_task was called,
\*                 the answer
NoEvent ==
    [ op |-> "none", image_id |-> 0, invoked |-> "none", after_return |-> FALSE,
      adapter |-> "none",
      hit |-> FALSE, adapter_raised |-> FALSE, raised |-> FALSE, result |-> NoResult,
      color_runs |-> <<>>, writes |-> <<>>, scheduled |-> FALSE, upsert_ok |-> FALSE,
      status_at_schedule |-> "none", response |-> NoResponse ]

\* A call of process_with_huggingface, in the coroutine or in the worker
\* thread run_in_executor gave it:
\*   "not_called"      not called yet
\*   "download"        awaiting client.get(image_url)
\*   "check"           the worker thread is at the test of the two globals
\*   "load_processor"  in BlipProcessor.from_pretrained
\*   "load_model"      in BlipForConditionalGeneration.from_pretrained
\*   "generate"        using the globals to caption the image
\*   "captioned"       run_captioning returned, the coroutine not yet resumed
\*   "model_error"     run_captioning raised, the coroutine not yet resumed
\*   "returned"        the call returned a dict
\*   "raised"          the call raised (the download failed)
\* loaded: the call has run the model load to its end
HfPositions ==
    { "not_called", "download", "check", "load_processor", "load_model",
      "generate", "captioned", "model_error", "returned", "raised" }

MaxCalls == 2

HfCalls == 1..MaxCalls

\* _blip_processor = None, _blip_model = None, no call yet
HfInit ==
    /\ _blip_processor = "None"
    /\ _blip_model = "None"
    /\ hf_calls = [c \in HfCalls |-> [pc |-> "not_called", loaded |-> FALSE]]

\* no function applied on its own
NoUnit == [fn |-> "none"]

Init ==
    /\ AI_SERVICE \in Services
    /\ AI_API_KEY \in BOOLEAN
    /\ ai_cache = [u \in {} |-> NoResult]
    /\ \E present \in SUBSET ImageIds :
          image_metadata = [i \in present |-> PendingRow(UserId)]
    /\ tasks = [k \in TaskKinds |-> 0]
    /\ returned = {}
    /\ ev = NoEvent
    /\ HfInit
    /\ unit = NoUnit

\* POST /api/process-image
Submit(image_id) ==
    /\ Live(tasks) < MaxTasks
    /\ \E h \in {process_image(image_metadata, Request(image_id), env) : env \in HandlerEnvs} :
          /\ image_metadata' = h.table
          /\ tasks' = IF h.scheduled
                      THEN [tasks EXCEPT ![Kind("scheduled", image_id)] = @ + 1]
                      ELSE tasks
          /\ ev' = [NoEvent EXCEPT !.op = "process_image", !.image_id = image_id,
                                   !.writes = h.writes, !.scheduled = h.scheduled,
                                   !.upsert_ok = h.upsert_ok,
                                   !.status_at_schedule = h.status_at_schedule,
                                   !.response = h.response]
    /\ UNCHANGED <<AI_SERVICE, AI_API_KEY, ai_cache, returned, hf_vars, unit>>

\* the task of kind k ends: the orchestrator has returned run (or raised),
\* the table is written
EndTask(k, op, run) ==
    \E done \in {process_image_async(image_metadata, Request(k.image_id), run, env) :
                   env \in TaskEnvs} :
        /\ ai_cache' = run.cache
        /\ image_metadata' = done.table
        /\ tasks' = [tasks EXCEPT ![k] = @ - 1]
        /\ returned' = returned \cup {UrlOf(k.image_id)}
        /\ ev' = [NoEvent EXCEPT
                    !.op = op, !.image_id = k.image_id,
                    !.invoked = IF op = "task_run" THEN run.adapter ELSE "none",
                    !.after_return = /\ op = "task_run"
                                     /\ run.adapter # "none"
                                     /\ UrlOf(k.image_id) \in returned,
                    !.adapter = run.adapter,
                    !.hit = run.hit, !.adapter_raised = run.adapter_raised,
                    !.raised = run.raised, !.result = run.result,
                    !.color_runs = run.color_runs, !.writes = done.writes]
        /\ UNCHANGED <<AI_SERVICE, AI_API_KEY, hf_vars, unit>>

\* as TaskStart, with in-flight de-duplication: a call that misses the cache
\* while another call for the same URL is in its adapter waits for that one
\* and invokes nothing
TaskStartJoiningInFlight(image_id) ==
    LET k == Kind("scheduled", image_id)
    IN  /\ tasks[k] > 0
        /\ \E run \in process_image_with_ai(ai_cache, UrlOf(image_id),
                                            AI_SERVICE, AI_API_KEY) :
              IF run.suspended
              THEN /\ tasks' = [tasks EXCEPT ![k] = @ - 1,
                                             ![Kind("awaiting", image_id)] = @ + 1]
                   /\ ev' = [NoEvent EXCEPT
                               !.op = "task_start", !.image_id = image_id,
                               !.invoked = IF tasks[Kind("awaiting", image_id)] > 0
                                           THEN "none" ELSE run.adapter,
                               !.after_return = UrlOf(image_id) \in returned]
                   /\ UNCHANGED <<AI_SERVICE, AI_API_KEY, ai_cache, image_metadata,
                                  returned, hf_vars, unit>>
              ELSE EndTask(k, "task_run", run)

\* A scheduled task starts: process_image_async calls the orchestrator, which
\* looks the cache up and, on a miss, calls the adapter. The step runs to the
\* first await that suspends, or to the end of the task when nothing does.
TaskStart(image_id) ==
    LET k == Kind("scheduled", image_id)
    IN  /\ tasks[k] > 0
        /\ \E run \in process_image_with_ai(ai_cache, UrlOf(image_id),
                                            AI_SERVICE, AI_API_KEY) :
              IF run.suspended
              THEN /\ tasks' = [tasks EXCEPT ![k] = @ - 1,
                                             ![Kind("awaiting", image_id)] = @ + 1]
                   /\ ev' = [NoEvent EXCEPT
                               !.op = "task_start", !.image_id = image_id,
                               !.invoked = run.adapter,
                               !.after_return = UrlOf(image_id) \in returned]
                   /\ UNCHANGED <<AI_SERVICE, AI_API_KEY, ai_cache, image_metadata,
                                  returned, hf_vars, unit>>
              ELSE EndTask(k, "task_run", run)

\* A task suspended in its adapter resumes and runs to its end.
TaskResume(image_id) ==
    LET k == Kind("awaiting", image_id)
    IN  /\ tasks[k] > 0
        /\ \E run \in ResumeAfterAwait(ai_cache, UrlOf(image_id),
                                       AI_SERVICE, AI_API_KEY) :
              EndTask(k, "task_resume", run)

Next ==
    \/ \E image_id \in ImageIds : Submit(image_id)
    \/ \E image_id \in ImageIds : TaskStart(image_id)
    \/ \E image_id \in ImageIds : TaskResume(image_id)

Spec == Init /\ [][Next]_vars

(***************************************************************************)
(* Properties.                                                             *)
(***************************************************************************)
\* an orchestrator call ended in the last step
TaskEnded == ev.op \in {"task_run", "task_resume"}

\* the same, of the step being taken
TaskEnds == ev'.op \in {"task_run", "task_resume"}

Row == image_metadata[ev.image_id]

RowExists == ev.image_id \in DOMAIN image_metadata

\* the writes of the last step that carry status
WritesOf(status) == {j \in 1..Len(ev.writes) : ev.writes[j].status = status}

\* C1: whatever the configured provider, the credential and the outcome of
\* the adapter, a call of process_image_with_ai returns an annotation result
\* and raises nothing to its caller.
C1_NeverFailsOutward ==
    TaskEnded => /\ ~ev.raised
                 /\ ev.result # NoResult
                 /\ ev.adapter_raised => ev.result = DegradedResult

\* the adapter raised and the call returned the degraded dict
C1_Witness ==
    TaskEnded /\ ev.adapter # "none" /\ ev.adapter_raised /\ ~ev.raised
              /\ ev.result = DegradedResult

\* C2: every result the orchestrator returns has exactly 3 colors, between 1
\* and 10 tags and a non-empty description.
C2_ResultShape ==
    TaskEnded => /\ Len(ev.result.colors) = NumColors
                 /\ Len(ev.result.tags) >= 1
                 /\ Len(ev.result.tags) <= MaxTags
                 /\ ev.result.description # <<>>

\* C3 as stated: the result of every call, the degraded one included, is in
\* the cache under the image reference when the call ends, and no adapter is
\* called for a reference for which an earlier call has ended.
C3_EveryResultCached ==
    /\ TaskEnded => /\ UrlOf(ev.image_id) \in DOMAIN ai_cache
                    /\ ai_cache[UrlOf(ev.image_id)] = ev.result
    /\ ev.invoked # "none" => ~ev.after_return

\* C3 as amended: a call stores its result under the image reference when
\* its adapter returned normally (the fallback dict the local-model adapter
\* returns included); when the adapter raised, the call returns the degraded
\* dict and leaves the cache as it was.
C3_CachedWhenAdapterReturns ==
    [][ TaskEnds =>
          /\ (~ev'.hit /\ ~ev'.adapter_raised) =>
                /\ UrlOf(ev'.image_id) \in DOMAIN ai_cache'
                /\ ai_cache'[UrlOf(ev'.image_id)] = ev'.result
                /\ \A u \in DOMAIN ai_cache :
                      u # UrlOf(ev'.image_id) => ai_cache'[u] = ai_cache[u]
          /\ ev'.adapter_raised =>
                /\ ai_cache' = ai_cache
                /\ ev'.result = DegradedResult ]_vars

\* a second call for a reference, after a first one ended, called the adapter
\* again, which raised again, and the cache still lacks the reference
C3_Witness ==
    /\ TaskEnded /\ ev.invoked # "none" /\ ev.after_return /\ ev.adapter_raised
    /\ UrlOf(ev.image_id) \notin DOMAIN ai_cache

\* C4: when the cache holds the image reference, the call returns the cached
\* entry in the step it starts in: no adapter (provider or mock) is called,
\* the colour extractor is not run, the cache is unchanged.
C4_CacheHitReturnsAtOnce ==
    [][ \A i \in ImageIds :
          ( /\ tasks'[Kind("scheduled", i)] < tasks[Kind("scheduled", i)]
            /\ UrlOf(i) \in DOMAIN ai_cache )
          => /\ ev'.op = "task_run"
             /\ ev'.hit
             /\ ev'.invoked = "none" /\ ev'.adapter = "none"
             /\ ev'.color_runs = <<>>
             /\ ev'.result = ai_cache[UrlOf(i)]
             /\ ai_cache' = ai_cache ]_vars

C4_Witness == ev.op = "task_run" /\ ev.hit /\ ev.result = ai_cache[UrlOf(ev.image_id)]

\* C5 as stated: a status changes only into processing from pending or from
\* no row, and from processing to completed or failed.
C5_StrictStateMachine ==
    [][ \A i \in ImageIds :
          LET old == StatusOf(image_metadata, i)
              new == StatusOf(image_metadata', i)
          IN  old # new =>
                \/ new = "processing" /\ old \in {"pending", "absent"}
                \/ old = "processing" /\ new \in {"completed", "failed"} ]_vars

\* C5 as amended: a status changes either into processing, written by the
\* submission handler (from no row or from any other status: a resubmission
\* restarts a finished job), or into completed or failed, written by a
\* background task to an existing row (from any other status: the row may
\* still be pending when the handler's upsert raised, or already terminal
\* when an overlapping task finished first); no status changes to pending
\* and no row disappears.
C5_StateMachine ==
    [][ \A i \in ImageIds :
          LET old == StatusOf(image_metadata, i)
              new == StatusOf(image_metadata', i)
          IN  old # new =>
                \/ new = "processing" /\ ev'.op = "process_image"
                \/ new \in {"completed", "failed"} /\ old # "absent" /\ TaskEnds ]_vars

\* a resubmission has put a row that holds a finished annotation back to
\* processing
C5_Witness ==
    /\ ev.op = "process_image" /\ ev.upsert_ok /\ RowExists
    /\ Row.ai_processing_status = "processing"
    /\ Row.description # Null

\* C6: completed and failed are written only by the background task; the
\* submission handler writes no status but processing.
C6_TerminalOnlyByTask ==
    [][ /\ \A j \in 1..Len(ev'.writes) :
              /\ ev'.op = "process_image" => ev'.writes[j].status = "processing"
              /\ ev'.writes[j].status \in {"completed", "failed"} => TaskEnds
        /\ \A i \in ImageIds :
              LET old == StatusOf(image_metadata, i)
                  new == StatusOf(image_metadata', i)
              IN  /\ ev'.op = "process_image" => new \in {old, "processing"}
                  /\ (old # new /\ new \in {"completed", "failed"}) => TaskEnds ]_vars

\* the handler has written processing over a terminal status a task wrote
C6_Witness ==
    /\ ev.op = "process_image" /\ ev.writes = <<Write("processing", FALSE, TRUE)>>
    /\ RowExists /\ Row.ai_processing_status = "processing" /\ Row.description # Null

\* C7 as stated: when the handler schedules a task the row is in processing,
\* and no task starts while its row is missing or not in processing.
C7_ProcessingBeforeTask ==
    [][ /\ (ev'.op = "process_image" /\ ev'.scheduled) =>
              ev'.status_at_schedule = "processing"
        /\ ev'.op \in {"task_start", "task_run"} =>
              StatusOf(image_metadata, ev'.image_id) = "processing" ]_vars

\* C7 as amended: when the handler schedules a task and its upsert raised
\* nothing, the row exists with status processing at the moment create_task
\* is called. (When the upsert raises, the handler prints the error and
\* schedules the task all the same.)
C7_ProcessingBeforeTaskWhenUpsertOk ==
    (ev.op = "process_image" /\ ev.scheduled /\ ev.upsert_ok) =>
        /\ ev.status_at_schedule = "processing"
        /\ RowExists /\ Row.ai_processing_status = "processing"

C7_Witness ==
    /\ ev.op = "process_image" /\ ev.scheduled /\ ev.upsert_ok
    /\ tasks[Kind("scheduled", ev.image_id)] > 0
    /\ ev.status_at_schedule = "processing"

\* C8: a provider error alone never gives status failed: when the adapter
\* raised and no table call of the task raised, the task writes completed
\* with the degraded result; failed is written only after the update to
\* completed raised.
C8_FailedOnlyOnPersistenceError ==
    TaskEnded =>
        /\ WritesOf("failed") # {} => ev.writes[1] = Write("completed", TRUE, FALSE)
        /\ (ev.adapter_raised /\ \A j \in 1..Len(ev.writes) : ~ev.writes[j].raised) =>
              /\ ev.writes = <<Write("completed", FALSE, RowExists)>>
              /\ RowExists =>
                    /\ Row.ai_processing_status = "completed"
                    /\ Row.description = Some(DegradedResult.description)
                    /\ Row.tags = Some(DegradedResult.tags)
                    /\ Row.colors = Some(DegradedResult.colors)

\* the adapter raised, the table took the update, the job is completed
C8_Witness ==
    /\ TaskEnded /\ ev.adapter_raised /\ ev.adapter # "none"
    /\ RowExists /\ Row.ai_processing_status = "completed"
    /\ Row.description = Some(DegradedDescription)

\* C9: the handler always answers 200 with the image id, status processing or
\* queued, whatever raises in the upsert or in create_task.
C9_AlwaysHttpSuccess ==
    ev.op = "process_image" =>
        /\ ev.response.status_code >= 200 /\ ev.response.status_code <= 299
        /\ ev.response.image_id = ev.image_id
        /\ ev.response.status \in {"processing", "queued"}

\* the upsert raised, create_task raised, the answer is 200 all the same
C9_Witness ==
    /\ ev.op = "process_image" /\ ~ev.upsert_ok /\ ~ev.scheduled
    /\ ev.response = [status_code |-> HttpOk, status |-> "processing",
                      image_id |-> ev.image_id]

\* the provider failed in the orchestrator run that ended in the last step:
\* its adapter raised, or the local-model adapter returned its fallback dict
ProviderFailed ==
    /\ TaskEnded /\ ~ev.hit
    /\ ev.adapter_raised \/ ev.result.description = HfFallbackDescription

\* C10 as stated: whenever the provider fails, extract_colors is run and its
\* output is the colors of the result.
C10_DegradedColorsExtracted ==
    ProviderFailed => /\ Len(ev.color_runs) >= 1
                      /\ ev.result.colors = ev.color_runs[Len(ev.color_runs)]

\* C10 as amended: when the captioning of the local-model adapter fails, the
\* fallback dict that adapter returns takes its colors from a run of
\* extract_colors; when an adapter raises to the orchestrator, extract_colors
\* is not run and the degraded result carries the fixed colors #000000,
\* #FFFFFF, #808080.
C10_DegradedColors ==
    ProviderFailed =>
        IF ev.adapter_raised
        THEN ev.color_runs = <<>> /\ ev.result.colors = FallbackColors
        ELSE Len(ev.color_runs) = 1 /\ ev.result.colors = ev.color_runs[1]

\* an adapter raised and the result carries the fixed colors, no extraction
C10_Witness ==
    /\ ProviderFailed /\ ev.adapter_raised /\ ev.adapter \in {"replicate", "openai", "google"}
    /\ ev.color_runs = <<>> /\ ev.result.colors = FallbackColors

\* the orchestrator run that ended in the last step was dispatched (no cache
\* hit) with a provider that needs a key and without a key
MissingKey ==
    /\ TaskEnded /\ ~ev.hit /\ ~AI_API_KEY
    /\ AI_SERVICE \in {"replicate", "openai", "google"}

IsMockResult == \E out \in process_with_mock : ev.result = out.result

\* C11 as stated: when the provider needs a key (replicate, openai, google)
\* and none is set, the orchestrator calls the mock adapter and returns its
\* result.
C11_MissingKeyGivesMock ==
    MissingKey => ev.adapter = "mock" /\ ~ev.adapter_raised /\ IsMockResult

\* C11 as amended: without a key, the orchestrator calls the mock adapter
\* and returns its result when the provider is replicate; when the provider
\* is openai or google it raises ValueError before any adapter is called and
\* returns the degraded result (not the mock result).
C11_MissingKey ==
    MissingKey =>
        IF AI_SERVICE = "replicate"
        THEN ev.adapter = "mock" /\ ~ev.adapter_raised /\ IsMockResult
        ELSE /\ ev.adapter = "none" /\ ev.adapter_raised
             /\ ev.result = DegradedResult /\ ~IsMockResult

\* openai without a key: the call ended with the degraded result
C11_Witness ==
    /\ MissingKey /\ AI_SERVICE = "openai"
    /\ ev.adapter = "none" /\ ev.result = DegradedResult

(***************************************************************************)
(* process_with_huggingface, call by call and thread by thread. The        *)
(* coroutine runs on the event loop up to an await; run_captioning runs in *)
(* the worker thread of the ThreadPoolExecutor the call created, and the   *)
(* threads of several calls interleave.                                    *)
(***************************************************************************)
HfAt(c, pc) == hf_calls[c].pc = pc

HfGoto(c, pc) == hf_calls' = [hf_calls EXCEPT ![c].pc = pc]

\* process_with_huggingface(image_url) is called and awaits the download
HfCall(c) ==
    /\ HfAt(c, "not_called")
    /\ HfGoto(c, "download")
    /\ UNCHANGED <<_blip_processor, _blip_model, app_vars, unit>>

\* the download ends: it raises, or the coroutine makes its executor, hands
\* run_captioning to it and awaits the future
HfDownloaded(c) ==
    /\ HfAt(c, "download")
    /\ \E ok \in BOOLEAN : HfGoto(c, IF ok THEN "check" ELSE "raised")
    /\ UNCHANGED <<_blip_processor, _blip_model, app_vars, unit>>

\* if _blip_processor is None or _blip_model is None
HfCheck(c) ==
    /\ HfAt(c, "check")
    /\ HfGoto(c, IF _blip_processor = "None" \/ _blip_model = "None"
                 THEN "load_processor" ELSE "generate")
    /\ UNCHANGED <<_blip_processor, _blip_model, app_vars, unit>>

\* _blip_processor = BlipProcessor.from_pretrained(...)
HfLoadProcessor(c) ==
    /\ HfAt(c, "load_processor")
    /\ \/ /\ _blip_processor' = "loaded"
          /\ HfGoto(c, "load_model")
       \/ /\ HfGoto(c, "model_error")
          /\ UNCHANGED _blip_processor
    /\ UNCHANGED <<_blip_model, app_vars, unit>>

\* _blip_model = BlipForConditionalGeneration.from_pretrained(...), .to("cpu"),
\* .eval()
HfLoadModel(c) ==
    /\ HfAt(c, "load_model")
    /\ \/ /\ _blip_model' = "loaded"
          /\ hf_calls' = [hf_calls EXCEPT ![c] = [pc |-> "generate", loaded |-> TRUE]]
       \/ /\ HfGoto(c, "model_error")
          /\ UNCHANGED _blip_model
    /\ UNCHANGED <<_blip_processor, app_vars, unit>>

\* the processor, generate and decode: the caption is returned, or an
\* exception is printed and raised again
HfGenerate(c) ==
    /\ HfAt(c, "generate")
    /\ \E ok \in BOOLEAN : HfGoto(c, IF ok THEN "captioned" ELSE "model_error")
    /\ UNCHANGED <<_blip_processor, _blip_model, app_vars, unit>>

\* the coroutine resumes with the caption or the exception and returns the
\* result or the fallback dict
HfReturn(c) ==
    /\ HfAt(c, "captioned") \/ HfAt(c, "model_error")
    /\ HfGoto(c, "returned")
    /\ UNCHANGED <<_blip_processor, _blip_model, app_vars, unit>>

HfNext ==
    \/ \E c \in HfCalls : HfCall(c)
    \/ \E c \in HfCalls : HfDownloaded(c)
    \/ \E c \in HfCalls : HfCheck(c)
    \/ \E c \in HfCalls : HfLoadProcessor(c)
    \/ \E c \in HfCalls : HfLoadModel(c)
    \/ \E c \in HfCalls : HfGenerate(c)
    \/ \E c \in HfCalls : HfReturn(c)

\* the local-model adapter configured, no request, no call yet
HfStart ==
    /\ AI_SERVICE = "huggingface"
    /\ AI_API_KEY = FALSE
    /\ ai_cache = [u \in {} |-> NoResult]
    /\ image_metadata = [i \in {} |-> PendingRow(UserId)]
    /\ tasks = [k \in TaskKinds |-> 0]
    /\ returned = {}
    /\ ev = NoEvent
    /\ unit = NoUnit
    /\ HfInit

HfSpec == HfStart /\ [][HfNext]_vars

\* the calls whose worker thread is inside the model load
HfLoading == {c \in HfCalls : hf_calls[c].pc \in {"load_processor", "load_model"}}

\* the calls whose worker thread is inside run_captioning
HfCaptioning ==
    {c \in HfCalls : hf_calls[c].pc \in {"check", "load_processor", "load_model", "generate"}}

\* C12: whatever the number of concurrent calls of process_with_huggingface
\* during cold start, the model load runs at most once and no two loads are
\* in progress together.
C12_ModelLoadedOnce ==
    /\ Cardinality(HfLoading) <= 1
    /\ Cardinality({c \in HfCalls : hf_calls[c].loaded}) <= 1

\* C13: at most one execution of run_captioning is in progress at any time.
C13_InferenceSerialized == Cardinality(HfCaptioning) <= 1

\* C14: there is no in-flight de-duplication: an orchestrator call that
\* starts while the cache lacks the image reference invokes the provider
\* adapter even when another call for the same reference is inside its
\* adapter and has not stored its result yet. (With openai or google and no
\* key the dispatch raises before any adapter.)
C14_NoInFlightDeduplication ==
    [][ \A i \in ImageIds :
          ( /\ tasks'[Kind("scheduled", i)] < tasks[Kind("scheduled", i)]
            /\ tasks[Kind("awaiting", i)] > 0
            /\ UrlOf(i) \notin DOMAIN ai_cache
            /\ AI_SERVICE \in {"openai", "google"} => AI_API_KEY )
          => /\ ev'.op \in {"task_start", "task_run"}
             /\ ~ev'.hit
             /\ ev'.invoked # "none" ]_vars

\* two calls for one reference are inside the adapter, nothing is stored
C14_Witness ==
    \E i \in ImageIds :
        /\ tasks[Kind("awaiting", i)] >= 2
        /\ UrlOf(i) \notin DOMAIN ai_cache
        /\ ev.op = "task_start" /\ ev.image_id = i /\ ev.invoked # "none"

(***************************************************************************)
(* The functions on their own: one application to one input.               *)
(***************************************************************************)
ErrPrefix ==
    <<"4","2","9"," ","T","o","o"," ","M","a","n","y"," ","R","e","q","u",
      "e","s","t","s",":"," ">>

ErrThrottled ==
    <<"R","e","q","u","e","s","t"," ","w","a","s"," ","t","h","r","o","t",
      "t","l","e","d",".">>

ErrResetsSoon ==
    <<"4","2","9"," ","r","a","t","e"," ","l","i","m","i","t"," ","r","e",
      "s","e","t","s"," ","i","n"," ","a"," ","m","o","m","e","n","t">>

ErrSuffix ==
    <<" ","(","b","u","r","s","t"," ","o","f"," ","1",")">>

\* str(n), n >= 0
RECURSIVE FormatInt(_)
FormatInt(n) ==
    IF n < 10 THEN <<Digits[n + 1]>>
    ELSE Append(FormatInt(n \div 10), Digits[(n % 10) + 1])

MaxHint == 120

\* the hints of a rate-limit message: "resets in ~Ns" or "resets in Ns", in
\* lower or in upper case
Hints == [n : 0..MaxHint, tilde : BOOLEAN, upper : BOOLEAN]

Upper(text) ==
    [i \in 1..Len(text) |->
        IF \E k \in 1..Len(LowerChars) : LowerChars[k] = text[i]
        THEN UpperChars[CHOOSE k \in 1..Len(LowerChars) : LowerChars[k] = text[i]]
        ELSE text[i]]

\* a rate-limit message with the hint
HintText(hint) ==
    LET words == StrResetsIn \o <<" ">> \o (IF hint.tilde THEN <<"~">> ELSE <<>>)
                    \o FormatInt(hint.n) \o <<"s">>
    IN  ErrPrefix \o (IF hint.upper THEN Upper(words) ELSE words) \o ErrSuffix

\* rate-limit messages without a hint
UnhintedTexts == { ErrPrefix, ErrThrottled, ErrResetsSoon, Err404 }

PixelValues == { <<0, 0, 0>>, <<255, 255, 255>>, <<250, 10, 10>>, <<31, 32, 200>> }

MaxPixels == 3

\* what the download and the decoding can give extract_colors
RECURSIVE PixelLists(_)
PixelLists(n) ==
    IF n = 0 THEN { <<>> }
    ELSE { Append(pixels, p) : pixels \in PixelLists(n - 1), p \in PixelValues }

UnitImages ==
    Images \cup UNION { PixelLists(n) : n \in 1..MaxPixels }

UnitStart ==
    /\ AI_SERVICE = "replicate"
    /\ AI_API_KEY = TRUE
    /\ ai_cache = [u \in {} |-> NoResult]
    /\ image_metadata = [i \in {} |-> PendingRow(UserId)]
    /\ tasks = [k \in TaskKinds |-> 0]
    /\ returned = {}
    /\ ev = NoEvent
    /\ HfInit
    /\ unit = NoUnit

\* wait_time of a rate-limit message
ApplyWaitTime ==
    /\ unit = NoUnit
    /\ \/ \E hint \in Hints :
             unit' = [ fn |-> "wait_time", hinted |-> TRUE, n |-> hint.n,
                       input |-> HintText(hint),
                       output |-> wait_time(HintText(hint)) ]
       \/ \E text \in UnhintedTexts :
             unit' = [ fn |-> "wait_time", hinted |-> FALSE, n |-> 0,
                       input |-> text, output |-> wait_time(text) ]
    /\ UNCHANGED <<app_vars, hf_vars>>

\* one call of process_with_replicate, the key set
ApplyReplicate ==
    /\ unit = NoUnit
    /\ \E env \in ReplicateEnvs :
          \E out \in process_with_replicate(TRUE, env) :
             unit' = [ fn |-> "process_with_replicate", first |-> env.first,
                       retry |-> env.retry, trace |-> out.trace,
                       raised |-> out.raised ]
    /\ UNCHANGED <<app_vars, hf_vars>>

\* one call of extract_colors
ApplyExtractColors ==
    /\ unit = NoUnit
    /\ \E image \in UnitImages :
          unit' = [ fn |-> "extract_colors", failed |-> image = "error",
                    image |-> image, output |-> extract_colors(image) ]
    /\ UNCHANGED <<app_vars, hf_vars>>

CaptionTrees ==
    <<"T","r","e","e",","," ","t","r","e","e","."," ","T","R","E","E"," ",
      "f","o","r","e","s","t">>

CaptionGraphic ==
    <<"A"," ","g","r","a","p","h","i","c"," ","i","m","a","g","e"," ","o",
      "f"," ","a"," ","g","r","a","p","h","i","c">>

TagPlaying ==
    <<"p","l","a","y","i","n","g">>

TagCat ==
    <<"c","a","t">>

TagDog ==
    <<"d","o","g">>

\* the texts given to extract_tags_from_text
TagTexts == { <<>>, CaptionCat, CaptionTrees, CaptionGraphic }

\* one call of extract_tags_from_text
ApplyExtractTags ==
    /\ unit = NoUnit
    /\ \E text \in TagTexts :
          \E tags \in extract_tags_from_text(text) :
             unit' = [ fn |-> "extract_tags_from_text", input |-> text,
                       output |-> tags ]
    /\ UNCHANGED <<app_vars, hf_vars>>

\* how many times the long sample texts repeat their word
LongRepeats == 20

\* word * n
RECURSIVE Repeat(_, _)
Repeat(word, n) == IF n = 0 THEN <<>> ELSE word \o Repeat(word, n - 1)

\* a caption of more than 200 characters
CaptionLong == Repeat(<<"p","h","o","t","o","g","r","a","p","h"," ">>, LongRepeats)

\* a reply of the chat completion with more than 200 characters after the
\* word description
ContentLong ==
    DescriptionWord \o <<":">>
        \o Repeat(<<" ","p","h","o","t","o","g","r","a","p","h">>, LongRepeats)

\* a detected text of more than 200 characters
TextLong == Repeat(<<"P","H","O","T","O","G","R","A","P","H"," ">>, LongRepeats)

\* the captions given to the dict a captioning adapter builds
UnitCaptions == TagTexts \cup {CaptionLong}

\* the result dict a captioning adapter builds from a caption: the tags of
\* the caption, padded or cut, the description, the colours
ApplyCaptionResult ==
    /\ unit = NoUnit
    /\ \E caption \in UnitCaptions, image \in Images :
          \E tags \in extract_tags_from_text(caption) :
             unit' = [ fn |-> "CaptionResult", input |-> caption,
                       extracted |-> tags,
                       output |-> CaptionResult(caption, tags, extract_colors(image)) ]
    /\ UNCHANGED <<app_vars, hf_vars>>

\* the outside world of one call of process_with_openai
UnitOpenaiEnvs ==
    [ create : [kind : {"ok"}, content : Contents \cup {ContentLong}]
               \cup [kind : {"Exception"}, content : {<<>>}],
      image : Images ]

\* the outside world of one call of process_with_google
UnitGoogleEnvs ==
    [ labels : [kind : {"ok"}, list : {<<>>, <<LabelForest, LabelTree>>}]
               \cup [kind : {"Exception"}, list : {<<>>}],
      text : [kind : {"ok"}, list : {<<>>, <<TextStop>>, <<TextLong, TextStop>>}]
             \cup [kind : {"Exception"}, list : {<<>>}],
      image : Images ]

\* one call of process_with_openai, the key set, and what the orchestrator
\* makes of its outcome
ApplyOpenai ==
    /\ unit = NoUnit
    /\ \E env \in UnitOpenaiEnvs :
          \E out \in process_with_openai(env) :
             unit' = [ fn |-> "process_with_openai", env |-> env,
                       raised |-> out.raised, output |-> out.result,
                       trace |-> out.trace,
                       run |-> AfterAdapter(ai_cache, UrlOf(1), out) ]
    /\ UNCHANGED <<app_vars, hf_vars>>

\* one call of process_with_google, the key set, and what the orchestrator
\* makes of its outcome
ApplyGoogle ==
    /\ unit = NoUnit
    /\ \E env \in UnitGoogleEnvs :
          \E out \in process_with_google(env) :
             unit' = [ fn |-> "process_with_google", env |-> env,
                       raised |-> out.raised, output |-> out.result,
                       trace |-> out.trace,
                       run |-> AfterAdapter(ai_cache, UrlOf(1), out) ]
    /\ UNCHANGED <<app_vars, hf_vars>>

(***************************************************************************)
(* find_similar_images                                                     *)
(***************************************************************************)
\* similarity = (tag_similarity * 0.7) + (color_similarity * 0.3), in tenths
TagWeight == 7
ColorWeight == 3

\* A score is the exact value num / den of the expression. (For sets whose
\* unions hold at most 4 elements, as here, the doubles Python computes
\* compare with each other, with 0 and with 1.0 as the exact values do.)
Score(num, den) == [num |-> num, den |-> den]

ScoreLess(a, b) == a.num * b.den < b.num * a.den

ScoreEq(a, b) == a.num * b.den = b.num * a.den

ScoreZero(a) == a.num = 0

ScoreOne(a) == a.num = a.den

\* len(a & b) / len(a | b) if len(a | b) > 0 else 0, weighted and added
Similarity(current_tags, current_colors, other_tags, other_colors) ==
    LET tag_intersection == Cardinality(current_tags \cap other_tags)
        tag_union == Cardinality(current_tags \cup other_tags)
        color_intersection == Cardinality(current_colors \cap other_colors)
        color_union == Cardinality(current_colors \cup other_colors)
        tu == IF tag_union > 0 THEN tag_union ELSE 1
        cu == IF color_union > 0 THEN color_union ELSE 1
    IN  Score(TagWeight * tag_intersection * cu + ColorWeight * color_intersection * tu,
              (TagWeight + ColorWeight) * tu * cu)

\* similar_images.sort(key=lambda x: x["similarity"], reverse=True): the sort
\* is stable, also with reverse=True
RECURSIVE SortBySimilarity(_)
SortBySimilarity(items) ==
    IF items = <<>> THEN <<>>
    ELSE LET best == CHOOSE i \in 1..Len(items) :
                        /\ \A j \in 1..Len(items) :
                              ~ScoreLess(items[i].similarity, items[j].similarity)
                        /\ \A j \in 1..(i - 1) :
                              ScoreLess(items[j].similarity, items[i].similarity)
             rest == [j \in 1..(Len(items) - 1) |-> IF j < best THEN items[j] ELSE items[j + 1]]
         IN  <<items[best]>> \o SortBySimilarity(rest)

\* s[:n], n of any sign
Slice(s, n) ==
    IF n >= 0 THEN Take(s, n)
    ELSE IF Len(s) + n > 0 THEN Take(s, Len(s) + n) ELSE <<>>

\* the rows of all_meta.data that hold None for tags or colors: set(None)
\* raises TypeError
UnsetRows(rows) == {i \in 1..Len(rows) : rows[i].tags = Null \/ rows[i].colors = Null}

\* as SimilarImages, without the test similarity > 0
SimilarImagesKeepingZero(current, rows, i) ==
    [ k \in 1..(Len(rows) - i + 1) |->
        [ image |-> i + k - 1,
          similarity |-> Similarity(Range(current.tags[1]), Range(current.colors[1]),
                                    Range(rows[i + k - 1].tags[1]),
                                    Range(rows[i + k - 1].colors[1])) ] ]

\* the loop over all_meta.data: the candidates with similarity > 0, in the
\* order of all_meta.data, each with the place of its row in all_meta.data
RECURSIVE SimilarImages(_, _, _)
SimilarImages(current, rows, i) ==
    IF i > Len(rows) THEN <<>>
    ELSE LET similarity == Similarity(Range(current.tags[1]), Range(current.colors[1]),
                                      Range(rows[i].tags[1]), Range(rows[i].colors[1]))
         IN  (IF ~ScoreZero(similarity)
              THEN << [image |-> i, similarity |-> similarity] >> ELSE <<>>)
             \o SimilarImages(current, rows, i + 1)

\* the answers of the route: HTTPException(500), {"data": []}, and
\* {"data": [...], "similarities": [...]}
SimilarError == [status_code |-> 500, keys |-> {}, data |-> <<>>, similarities |-> <<>>]

SimilarNone == [status_code |-> HttpOk, keys |-> {"data"}, data |-> <<>>, similarities |-> <<>>]

\* current_meta is what the select of the image's row gives, all_meta what
\* the select of the user's other rows gives
find_similar_images(current_meta, all_meta, limit) ==
    IF current_meta.kind = "Exception" THEN SimilarError
    ELSE IF current_meta.kind = "none" THEN SimilarNone
    ELSE IF current_meta.row.tags = Null \/ current_meta.row.colors = Null THEN SimilarError
    ELSE IF all_meta.kind = "Exception" THEN SimilarError
    ELSE IF UnsetRows(all_meta.rows) # {} THEN SimilarError
    ELSE LET similar_images ==
                 SortBySimilarity(SimilarImages(current_meta.row, all_meta.rows, 1))
             top == Slice(similar_images, limit)
         IN  [ status_code |-> HttpOk, keys |-> {"data", "similarities"},
               data |-> [k \in 1..Len(top) |-> top[k].image],
               similarities |-> [k \in 1..Len(top) |-> top[k].similarity] ]

ColorBlack ==
    <<"#","0","0","0","0","0","0">>

ColorWhite ==
    <<"#","f","f","f","f","f","f">>

SimRow(tags, colors) == [tags |-> tags, colors |-> colors]

\* the row of the image of the query: annotated, annotated with nothing, not
\* annotated yet
SimTargets ==
    { SimRow(Some(<<TagImage, TagPhoto>>), Some(<<ColorBlack, Gray>>)),
      SimRow(Some(<<>>), Some(<<>>)),
      SimRow(Null, Null) }

\* the rows of the user's other images
SimRows ==
    { SimRow(Some(<<TagPhoto, TagImage, TagPhoto>>), Some(<<Gray, ColorBlack>>)),
      SimRow(Some(<<TagPicture>>), Some(<<ColorWhite>>)),
      SimRow(Some(<<TagImage>>), Some(<<ColorWhite>>)),
      SimRow(Some(<<TagPhoto>>), Some(<<ColorWhite, ColorWhite>>)),
      SimRow(Some(<<TagPicture>>), Some(<<ColorBlack, Gray>>)),
      SimRow(Some(<<>>), Some(<<>>)),
      SimRow(Null, Null) }

MaxCandidates == 3

MaxLimit == 3

RECURSIVE RowLists(_)
RowLists(n) ==
    IF n = 0 THEN { <<>> }
    ELSE { Append(rows, r) : rows \in RowLists(n - 1), r \in SimRows }

\* what the two selects can give
CurrentMetas ==
    [kind : {"ok"}, row : SimTargets]
    \cup [kind : {"none", "Exception"}, row : {SimRow(Null, Null)}]

AllMetas ==
    [kind : {"ok"}, rows : UNION { RowLists(n) : n \in 0..MaxCandidates }]
    \cup [kind : {"Exception"}, rows : {<<>>}]

\* the limit of the query string: any int
Limits == (-1)..MaxLimit

\* GET /api/similar/{image_id}
ApplyFindSimilar ==
    /\ unit = NoUnit
    /\ \E current_meta \in CurrentMetas, all_meta \in AllMetas, limit \in Limits :
          unit' = [ fn |-> "find_similar_images", current_meta |-> current_meta,
                    all_meta |-> all_meta, limit |-> limit,
                    output |-> find_similar_images(current_meta, all_meta, limit) ]
    /\ UNCHANGED <<app_vars, hf_vars>>

\* one call of process_with_huggingface
ApplyHuggingface ==
    /\ unit = NoUnit
    /\ \E env \in HuggingfaceEnvs :
          \E out \in process_with_huggingface(env) :
             unit' = [ fn |-> "process_with_huggingface", env |-> env,
                       raised |-> out.raised, output |-> out.result,
                       trace |-> out.trace ]
    /\ UNCHANGED <<app_vars, hf_vars>>

(***************************************************************************)
(* process_image_async, applied to one table, one run of the orchestrator  *)
(* and one behaviour of the two update calls.                              *)
(***************************************************************************)
\* the table the task finds: no row of the image, the row the handler left,
\* a row an earlier task completed
TaskTables ==
    LET none == [i \in {} |-> PendingRow(UserId)]
        processing == InsertRow(none, 1, UserId, "processing")
    IN  { none, processing, UpdateCompleted(processing, 1, DegradedResult) }

\* the runs the awaited orchestrator can end with: a cache hit, a fresh
\* result, the degraded dict of its except branch, and an exception
\* escaping it (its own except Exception leaves none to an adapter)
TaskRuns ==
    LET empty == [u \in {} |-> NoResult]
        held == Store(empty, UrlOf(1), DegradedResult)
    IN  process_image_with_ai(held, UrlOf(1), "mock", FALSE)
        \cup process_image_with_ai(empty, UrlOf(1), "mock", FALSE)
        \cup process_image_with_ai(empty, UrlOf(1), "openai", FALSE)
        \cup { Run(empty, FALSE, NoCall, NoResult, TRUE) }

ApplyProcessImageAsync ==
    /\ unit = NoUnit
    /\ \E table \in TaskTables, run \in TaskRuns, env \in TaskEnvs :
          unit' = [ fn |-> "process_image_async", table |-> table,
                    run |-> run, env |-> env,
                    output |-> process_image_async(table, Request(1), run, env) ]
    /\ UNCHANGED <<app_vars, hf_vars>>

UnitNext ==
    \/ ApplyWaitTime
    \/ ApplyReplicate
    \/ ApplyExtractColors
    \/ ApplyExtractTags
    \/ ApplyCaptionResult
    \/ ApplyOpenai
    \/ ApplyGoogle
    \/ ApplyFindSimilar
    \/ ApplyHuggingface
    \/ ApplyProcessImageAsync

UnitSpec == UnitStart /\ [][UnitNext]_vars

\* where the last call of process_with_replicate ran candidate i, and where
\* it slept after a rate-limit error of candidate i
RunsOf(i) == {j \in 1..Len(unit.trace) : unit.trace[j] = RunEvent(i)}

SleepsOf(i) ==
    {j \in 1..Len(unit.trace) : unit.trace[j].op = "sleep" /\ unit.trace[j].model = i}

C16_WaitFromErrorText ==
    /\ unit.fn = "wait_time" =>
          unit.output = IF unit.hinted THEN unit.n + 15 ELSE 70
    /\ unit.fn = "process_with_replicate" =>
          \A j \in 1..Len(unit.trace) :
              unit.trace[j].op = "sleep" =>
                  /\ unit.first[unit.trace[j].model].detail = Err429
                  /\ unit.trace[j].wait = 27

\* the wait computed from "... resets in ~12s ..." is 27
C16_Witness ==
    /\ unit.fn = "wait_time" /\ unit.hinted /\ unit.n = 12
    /\ Contains(unit.input, <<"i","n"," ","~","1","2","s">>)
    /\ unit.output = 27

LowerHexChars == {"0","1","2","3","4","5","6","7","8","9","a","b","c","d","e","f"}

UpperHexChars == {"A","B","C","D","E","F"}

\* color is "#" and six characters of chars
IsHexColor(color, chars) ==
    /\ Len(color) = 7
    /\ color[1] = "#"
    /\ \A k \in 2..7 : color[k] \in chars

\* C17 as stated: whatever the download and the decoding give, extract_colors
\* returns exactly 3 strings, each "#" and six characters of 0-9a-f.
C17_ThreeLowercaseHexColors ==
    unit.fn = "extract_colors" =>
        /\ Len(unit.output) = NumColors
        /\ \A k \in 1..Len(unit.output) : IsHexColor(unit.output[k], LowerHexChars)

\* C17 as amended: extract_colors returns exactly 3 strings, each "#" and
\* six hexadecimal digits. The colors computed from the pixels (and the gray
\* padding) are in lowercase; when the download or the decoding fails the
\* result is the fixed triple #000000, #FFFFFF, #808080, whose second entry
\* is in uppercase.
C17_ThreeHexColors ==
    unit.fn = "extract_colors" =>
        /\ Len(unit.output) = NumColors
        /\ \A k \in 1..Len(unit.output) :
              IsHexColor(unit.output[k], LowerHexChars \cup UpperHexChars)
        /\ IF unit.failed
           THEN unit.output = << <<"#","0","0","0","0","0","0">>,
                                 <<"#","F","F","F","F","F","F">>,
                                 <<"#","8","0","8","0","8","0">> >>
           ELSE \A k \in 1..Len(unit.output) : IsHexColor(unit.output[k], LowerHexChars)

\* the download failed: the second color is #FFFFFF
C17_Witness ==
    /\ unit.fn = "extract_colors" /\ unit.failed
    /\ unit.output[2] = <<"#","F","F","F","F","F","F">>

\* C18 as stated: the tags of "A cat and a dog are playing." hold cat, dog
\* and playing and none of a, and, are.
C18_CatDogPlaying ==
    (unit.fn = "extract_tags_from_text" /\ unit.input = CaptionCat) =>
        /\ {TagCat, TagDog, TagPlaying} \subseteq Range(unit.output)
        /\ Range(unit.output) \cap {<<"a">>, <<"a","n","d">>, <<"a","r","e">>} = {}

\* C18 as amended: the tags of "A cat and a dog are playing." are exactly
\* {playing}: a, and, are are dropped, and so are cat and dog, words of no
\* more than 3 characters.
C18_OnlyPlaying ==
    (unit.fn = "extract_tags_from_text" /\ unit.input = CaptionCat) =>
        Range(unit.output) = {TagPlaying}

C18_Witness ==
    /\ unit.fn = "extract_tags_from_text" /\ unit.input = CaptionCat
    /\ unit.output = <<TagPlaying>>

\* the orchestrator run that ended in the last step called a provider
\* adapter, which produced a caption and returned its result
ProviderSucceeded ==
    /\ TaskEnded /\ ~ev.hit /\ ~ev.adapter_raised
    /\ ev.adapter \in {"replicate", "huggingface", "openai", "google"}
    /\ ev.result.description # HfFallbackDescription

\* C19: on adapter success, whichever the provider, the tag list of the
\* result has between 5 and 10 entries (padded from image, photo, picture,
\* visual, graphic when the extractor gave fewer than 5, truncated to 10).
C19_FiveToTenTags ==
    ProviderSucceeded =>
        Len(ev.result.tags) >= MinTags /\ Len(ev.result.tags) <= MaxTags

NoDuplicates(s) == \A i, j \in 1..Len(s) : s[i] = s[j] => i = j

\* C20: no tag occurs twice in the tag list of a result, also after the
\* padding with the generic tags.
C20_TagsDeduplicated ==
    /\ unit.fn = "CaptionResult" => NoDuplicates(unit.output.tags)
    /\ unit.fn = "extract_tags_from_text" => NoDuplicates(unit.output)

\* the last application built the result dict of an adapter that succeeded
UnitResult ==
    \/ unit.fn = "CaptionResult"
    \/ unit.fn \in {"process_with_openai", "process_with_google"} /\ ~unit.raised

\* C21: the description of every result an adapter builds on its success
\* path has at most 200 characters, whichever the provider.
C21_DescriptionAtMost200 ==
    UnitResult => Len(unit.output.description) <= MaxDescription

\* the last application was a query that answered the two parallel lists
Ranked ==
    /\ unit.fn = "find_similar_images"
    /\ unit.output.status_code = HttpOk
    /\ "similarities" \in unit.output.keys

\* where candidate i (its place in all_meta.data) stands in the answer
PlacesOf(i) == {k \in 1..Len(unit.output.data) : unit.output.data[k] = i}

SetOf(column) == Range(column[1])

\* the tags and the colors of candidate i are those of the target, and
\* neither set is empty
Identical(i) ==
    LET current == unit.current_meta.row
        other == unit.all_meta.rows[i]
    IN  /\ SetOf(other.tags) = SetOf(current.tags) /\ SetOf(current.tags) # {}
        /\ SetOf(other.colors) = SetOf(current.colors) /\ SetOf(current.colors) # {}

\* candidate i shares no tag and no color with the target
Disjoint(i) ==
    LET current == unit.current_meta.row
        other == unit.all_meta.rows[i]
    IN  /\ SetOf(other.tags) \cap SetOf(current.tags) = {}
        /\ SetOf(other.colors) \cap SetOf(current.colors) = {}

\* C22: in the answer of find_similar_images a candidate whose tags and
\* colors are those of the target (both sets non-empty) has score 1.0 (and
\* is in the answer when the limit cuts nothing); a candidate whose tags and
\* colors are both disjoint from the target's is not in the answer; no entry
\* of the answer has score 0.
C22_IdenticalOneDisjointExcluded ==
    Ranked =>
        /\ \A k \in 1..Len(unit.output.similarities) :
              ~ScoreZero(unit.output.similarities[k])
        /\ \A i \in 1..Len(unit.all_meta.rows) :
              /\ Identical(i) =>
                    /\ \A k \in PlacesOf(i) : ScoreOne(unit.output.similarities[k])
                    /\ unit.limit >= Len(unit.all_meta.rows) => PlacesOf(i) # {}
              /\ Disjoint(i) => PlacesOf(i) = {}

\* a disjoint candidate and then an identical one: the answer holds the
\* second alone, with score 1.0
C22_Witness ==
    /\ Ranked /\ Len(unit.all_meta.rows) = 2
    /\ Disjoint(1) /\ Identical(2)
    /\ unit.output.data = <<2>>
    /\ ScoreOne(unit.output.similarities[1])

\* the score of candidate i against the target
ScoreOf(i) ==
    Similarity(SetOf(unit.current_meta.row.tags), SetOf(unit.current_meta.row.colors),
               SetOf(unit.all_meta.rows[i].tags), SetOf(unit.all_meta.rows[i].colors))

\* the candidates with a score above 0
Scored == {i \in 1..Len(unit.all_meta.rows) : ~ScoreZero(ScoreOf(i))}

\* C23: the answer of find_similar_images is sorted by score, highest first,
\* candidates of equal score in the order of the input; it holds at most
\* limit entries, the first limit of that ordering; data and similarities
\* have the same length and entry k of one belongs to entry k of the other.
C23_SortedStableTruncated ==
    Ranked =>
        LET data == unit.output.data
            similarities == unit.output.similarities
        IN  /\ Len(data) = Len(similarities)
            /\ \A k \in 1..Len(data) :
                  data[k] \in Scored /\ ScoreEq(similarities[k], ScoreOf(data[k]))
            /\ \A k, l \in 1..Len(data) :
                  k < l => /\ ~ScoreLess(similarities[k], similarities[l])
                           /\ ScoreEq(similarities[k], similarities[l]) => data[k] < data[l]
            /\ Len(data) <= unit.limit
            /\ Len(data) = Min(unit.limit, Cardinality(Scored))
            /\ \A i \in Scored \ Range(data) :
                  \A k \in 1..Len(data) :
                      \/ ScoreLess(ScoreOf(i), similarities[k])
                      \/ ScoreEq(ScoreOf(i), similarities[k]) /\ data[k] < i

\* the task that ended in the last step hit an exception: the orchestrator
\* call raised, or the update to completed did
TaskHitException ==
    /\ TaskEnded
    /\ \/ ev.raised
       \/ Len(ev.writes) >= 1 /\ ev.writes[1] = Write("completed", TRUE, FALSE)

\* C24 as stated: whenever the task hits an exception, the status of its row
\* is failed once the task has ended.
C24_ExceptionGivesFailed ==
    TaskHitException => RowExists /\ Row.ai_processing_status = "failed"

\* C24 as amended: whenever the task hits an exception it attempts one
\* update of the status to failed, as its last write. The status is failed
\* once the task has ended when that update raises nothing and the row
\* exists; when the update raises too, the error is printed and the table
\* stays as it was; when there is no row, none is created.
C24_FailedUpdateAttempted ==
    [][ ( /\ TaskEnds
          /\ \/ ev'.raised
             \/ Len(ev'.writes) >= 1 /\ ev'.writes[1] = Write("completed", TRUE, FALSE) )
        => LET i == ev'.image_id
               last == ev'.writes[Len(ev'.writes)]
           IN  /\ Len(ev'.writes) >= 1
               /\ last.status = "failed"
               /\ Cardinality({j \in 1..Len(ev'.writes) : ev'.writes[j].status = "failed"}) = 1
               /\ IF last.raised \/ i \notin DOMAIN image_metadata
                  THEN image_metadata' = image_metadata
                  ELSE /\ last.applied
                       /\ StatusOf(image_metadata', i) = "failed" ]_vars

\* the update to completed raised and the update to failed raised too: the
\* task has ended and the row is still in processing
C24_Witness ==
    /\ TaskHitException
    /\ ev.writes = <<Write("completed", TRUE, FALSE), Write("failed", TRUE, FALSE)>>
    /\ RowExists /\ Row.ai_processing_status = "processing"

\* the last application was a call of a commercial-vision adapter
Commercial == unit.fn \in {"process_with_openai", "process_with_google"}

\* the orchestrator absorbed the failure of the call: it raised nothing,
\* returned the degraded result and left the cache as it was
Absorbed ==
    /\ ~unit.run.raised
    /\ unit.run.adapter_raised
    /\ unit.run.result = DegradedResult
    /\ unit.run.cache = ai_cache

\* C25 as stated: a call of process_with_openai or of process_with_google
\* makes a single remote request, and when the request fails the adapter
\* fails and the orchestrator absorbs the failure.
C25_SingleRequest ==
    Commercial =>
        /\ Len(unit.trace) = 1
        /\ unit.raised => Absorbed

\* C25 as amended: process_with_openai makes one chat-completion request;
\* process_with_google makes one label_detection request and, when that
\* returned, one text_detection request (two remote requests on its success
\* path). No request is made twice. An error of any of these requests ends
\* the call at once as a failure, which the orchestrator absorbs into the
\* degraded result.
C25_EachRequestOnce ==
    /\ unit.fn = "process_with_openai" =>
          /\ unit.trace = <<"chat.completions.create">>
          /\ unit.raised <=> unit.env.create.kind = "Exception"
    /\ unit.fn = "process_with_google" =>
          /\ unit.trace = IF unit.env.labels.kind = "Exception"
                          THEN <<"label_detection">>
                          ELSE <<"label_detection", "text_detection">>
          /\ unit.raised <=> ( \/ unit.env.labels.kind = "Exception"
                               \/ unit.env.text.kind = "Exception" )
    /\ Commercial =>
          /\ NoDuplicates(unit.trace)
          /\ IF unit.raised THEN Absorbed ELSE ~unit.run.adapter_raised

\* label_detection returned and text_detection raised: two requests, each
\* made once, the failure absorbed
C25_Witness ==
    /\ unit.fn = "process_with_google"
    /\ unit.env.labels.kind = "ok" /\ unit.env.text.kind = "Exception"
    /\ unit.trace = <<"label_detection", "text_detection">>
    /\ unit.raised /\ Absorbed

\* C26: a call of the adapter of the huggingface provider that has the image
\* walks the inference endpoints: it posts the image to an endpoint at least
\* once (and to each endpoint at most twice per model).
C26_EndpointWalk ==
    (unit.fn = "process_with_huggingface" /\ unit.env.download = "ok") =>
        Len(unit.trace) >= 1

\* the dicts a call of the orchestrator can return with the configuration
\* of the process: what the dispatched adapter returns, or the degraded dict
OrchestratorResults ==
    {out.result : out \in {o \in Dispatch(AI_SERVICE, AI_API_KEY) : ~o.raised}}
        \cup {DegradedResult}

\* row holds the description, the tags and the colors of result
Holds(row, result) ==
    /\ row.description = Some(result.description)
    /\ row.tags = Some(result.tags)
    /\ row.colors = Some(result.colors)

\* C27: a record is never partially populated by the background task. A row
\* in status completed holds the description, the tags and the colors of one
\* orchestrator result, all three; and when a task has written completed,
\* the row holds the three fields of the result that task got, written in
\* the same update as the status.
C27_NeverPartiallyPopulated ==
    /\ \A i \in DOMAIN image_metadata :
          image_metadata[i].ai_processing_status = "completed" =>
              \E result \in OrchestratorResults : Holds(image_metadata[i], result)
    /\ (TaskEnded /\ ev.writes = <<Write("completed", FALSE, TRUE)>>) =>
          /\ RowExists
          /\ Row.ai_processing_status = "completed"
          /\ Holds(Row, ev.result)

\* a task whose adapter returned has written completed, after an earlier
\* call for the image had ended: the row holds the three fields of its result
C27_Witness ==
    /\ TaskEnded /\ ev.writes = <<Write("completed", FALSE, TRUE)>>
    /\ ev.adapter # "none" /\ ~ev.adapter_raised
    /\ Row.ai_processing_status = "completed"
    /\ Holds(Row, ev.result) /\ ev.result # DegradedResult
    /\ UrlOf(ev.image_id) \in returned

\* the pixel with each channel lowered to the multiple of 32 below it
Floor32(p) == <<p[1] - (p[1] % 32), p[2] - (p[2] % 32), p[3] - (p[3] % 32)>>

\* the buckets of the image of the last extract_colors, how many pixels each
\* holds and where each is met first
Buckets == {Floor32(unit.image[j]) : j \in 1..Len(unit.image)}

PixelsIn(b) == {j \in 1..Len(unit.image) : Floor32(unit.image[j]) = b}

FirstMet(b) == CHOOSE j \in PixelsIn(b) : \A l \in PixelsIn(b) : j <= l

\* bucket a stands before bucket b: more pixels, or as many and met earlier
Before(a, b) ==
    \/ Cardinality(PixelsIn(a)) > Cardinality(PixelsIn(b))
    \/ Cardinality(PixelsIn(a)) = Cardinality(PixelsIn(b)) /\ FirstMet(a) < FirstMet(b)

\* C28: on a decoded image extract_colors returns 3 colors: the buckets of
\* the pixels (each channel floored to a multiple of 32) by decreasing pixel
\* count, buckets of equal count in the order they are first met, cut to the
\* first 3, then '#808080' for every place that is left.
C28_TopBucketsThenGray ==
    (unit.fn = "extract_colors" /\ ~unit.failed) =>
        LET n == Min(NumColors, Cardinality(Buckets))
        IN  /\ Len(unit.output) = NumColors
            /\ \A k \in 1..n :
                  \E b \in Buckets :
                      /\ unit.output[k] = rgb_to_hex(b)
                      /\ Cardinality({a \in Buckets : Before(a, b)}) = k - 1
            /\ \A k \in (n + 1)..NumColors :
                  unit.output[k] = <<"#","8","0","8","0","8","0">>

\* one black pixel, then two pixels of the bucket e0e0e0: that bucket first,
\* then black, then the gray padding
C28_Witness ==
    /\ unit.fn = "extract_colors" /\ ~unit.failed
    /\ unit.image = << <<0, 0, 0>>, <<255, 255, 255>>, <<255, 255, 255>> >>
    /\ unit.output = << <<"#","e","0","e","0","e","0">>, <<"#","0","0","0","0","0","0">>,
                        <<"#","8","0","8","0","8","0">> >>

\* the dicts the dispatched adapter (a provider adapter or the mock adapter)
\* can return normally
AdapterResults ==
    {out.result : out \in {o \in Dispatch(AI_SERVICE, AI_API_KEY) : ~o.raised}}

\* C29: over any interleaving of orchestrator calls the cache never loses a
\* key, and an entry is written or replaced only by a call that ends with
\* its adapter having returned normally, for the reference of that call and
\* with the result the adapter returned; so every cached value is such a
\* result.
C29_CacheInvariant ==
    [][ /\ DOMAIN ai_cache \subseteq DOMAIN ai_cache'
        /\ \A u \in DOMAIN ai_cache' :
              (u \notin DOMAIN ai_cache \/ ai_cache'[u] # ai_cache[u]) =>
                  /\ TaskEnds
                  /\ u = UrlOf(ev'.image_id)
                  /\ ~ev'.hit /\ ev'.adapter # "none" /\ ~ev'.adapter_raised
                  /\ ai_cache'[u] = ev'.result
        /\ \A u \in DOMAIN ai_cache' : ai_cache'[u] \in AdapterResults ]_vars

\* a later finisher has replaced the entry: the row holds the result of a
\* call that ended before, the cache holds the different result of the call
\* that ended in the last step
C29_Witness ==
    /\ TaskEnded /\ ev.op = "task_resume" /\ ~ev.adapter_raised
    /\ ai_cache[UrlOf(ev.image_id)] = ev.result
    /\ RowExists
    /\ \E result \in AdapterResults : result # ev.result /\ Holds(Row, result)

\* C30: a status write changes nothing but the status. The handler's write
\* to a row that exists (a resubmission) and the task's update to failed
\* leave the row in place with the description, the tags, the colors and the
\* user_id it held.
C30_StatusWritesOnlyStatus ==
    [][ ( \/ ev'.op = "process_image"
          \/ /\ TaskEnds
             /\ Len(ev'.writes) >= 1
             /\ ev'.writes[Len(ev'.writes)].status = "failed" )
        => \A i \in DOMAIN image_metadata :
              /\ i \in DOMAIN image_metadata'
              /\ image_metadata'[i].description = image_metadata[i].description
              /\ image_metadata'[i].tags = image_metadata[i].tags
              /\ image_metadata'[i].colors = image_metadata[i].colors
              /\ image_metadata'[i].user_id = image_metadata[i].user_id ]_vars

\* a task of a resubmitted image has written failed: the row still holds the
\* annotation of the earlier job
C30_Witness ==
    /\ TaskEnded
    /\ ev.writes = <<Write("completed", TRUE, FALSE), Write("failed", FALSE, TRUE)>>
    /\ RowExists /\ Row.ai_processing_status = "failed"
    /\ Row.description # Null /\ Row.tags # Null /\ Row.colors # Null

(***************************************************************************)
(* C31. A background task process_image_async ends without raising,        *)
(* whatever its orchestrator call and the two update calls do, and at most *)
(* one of its status writes returns without raising; that write carries    *)
(* the status completed or failed.                                         *)
(***************************************************************************)
SuccessfulWrites(writes) == {j \in DOMAIN writes : ~writes[j].raised}

C31_EndsQuietlyAtMostOneWrite ==
    unit.fn = "process_image_async" =>
        LET writes == unit.output.writes
        IN  /\ ~unit.output.raised
            /\ Cardinality(SuccessfulWrites(writes)) <= 1
            /\ \A j \in SuccessfulWrites(writes) :
                  writes[j].status \in {"completed", "failed"}
            /\ unit.output.table # unit.table =>
                  SuccessfulWrites(writes) # {}

\* the update to completed raised and the update to failed raised as well:
\* two attempts, no successful write, and the task still ends quietly
C31_Witness ==
    /\ unit.fn = "process_image_async"
    /\ ~unit.run.raised
    /\ unit.env.completed_raises /\ unit.env.failed_raises
    /\ Len(unit.output.writes) = 2
    /\ SuccessfulWrites(unit.output.writes) = {}
    /\ ~unit.output.raised

====
